---- MODULE Spec2Model ----
(***************************************************************************)
(* Nexus-AI-Agent: the intent classifier, the action planner, the tool     *)
(* executor, the orchestrator (planner.py), the session store (memory.py)  *)
(* and the HTTP handlers that drive them (main.py).                        *)
(*                                                                         *)
(* Messages are strings.  The regular expressions of planner.py are        *)
(* sequences of atoms matched on the characters of the message, so that    *)
(* word boundaries, substring tests and lower-casing are computed.         *)
(***************************************************************************)
EXTENDS Integers, Sequences, FiniteSets, TLC

(***************************************************************************)
(* Strings (python str)                                                    *)
(***************************************************************************)
CharAt(s, i) == SubSeq(s, i, i)

LitAt(s, p, w) == p + Len(w) - 1 <= Len(s) /\ SubSeq(s, p, p + Len(w) - 1) = w

\* python:  n in s
Contains(s, n) == \E i \in 1..(Len(s) - Len(n) + 1) : LitAt(s, i, n)

UpperAlpha == "ABCDEFGHIJKLMNOPQRSTUVWXYZ"

LowerAlpha == "abcdefghijklmnopqrstuvwxyz"

Digits == "0123456789"

UpperChars == {CharAt(UpperAlpha, i) : i \in 1..Len(UpperAlpha)}

LowerMap == [c \in UpperChars |->
                CharAt(LowerAlpha, CHOOSE i \in 1..Len(UpperAlpha) : CharAt(UpperAlpha, i) = c)]

LowerChar(c) == IF c \in UpperChars THEN LowerMap[c] ELSE c

RECURSIVE lower(_)
\* python:  s.lower()
lower(s) ==
    IF Len(s) = 0 THEN ""
    ELSE IF Len(s) = 1 THEN LowerChar(s)
    ELSE lower(SubSeq(s, 1, Len(s) \div 2)) \o lower(SubSeq(s, (Len(s) \div 2) + 1, Len(s)))

WhiteSpace == {" ", "\t", "\n"}

RECURSIVE lstrip(_)
lstrip(s) == IF s # "" /\ Head(s) \in WhiteSpace THEN lstrip(Tail(s)) ELSE s

RECURSIVE rstrip(_)
rstrip(s) ==
    IF s # "" /\ CharAt(s, Len(s)) \in WhiteSpace
    THEN rstrip(SubSeq(s, 1, Len(s) - 1))
    ELSE s

\* python:  s.strip()
strip(s) == rstrip(lstrip(s))

DigitChars == {CharAt(Digits, i) : i \in 1..Len(Digits)}

IsDigit(c) == c \in DigitChars

\* \w of the re module on the characters the messages are made of
WordChars == UpperChars \cup {CharAt(LowerAlpha, i) : i \in 1..Len(LowerAlpha)} \cup DigitChars \cup {"_"}

IsWordChar(c) == c \in WordChars

DigitVal(c) == (CHOOSE i \in 1..Len(Digits) : CharAt(Digits, i) = c) - 1

\* CPython's default limit on the digits of a string int() converts
\* (sys.int_info.default_max_str_digits)
MAX_STR_DIGITS == 4300

\* python:  int(s) raises ValueError for a run of more than MAX_STR_DIGITS digits
int_raises(s) == Len(s) > MAX_STR_DIGITS

RECURSIVE int(_)
\* python:  int(s)  for a run of decimal digits within the limit
int(s) == IF s = "" THEN 0 ELSE 10 * int(SubSeq(s, 1, Len(s) - 1)) + DigitVal(CharAt(s, Len(s)))

RECURSIVE str(_)
\* python:  str(n)  for an integer
str(n) ==
    IF n < 0 THEN "-" \o str(0 - n)
    ELSE IF n < 10 THEN CharAt(Digits, n + 1)
    ELSE str(n \div 10) \o CharAt(Digits, (n % 10) + 1)

(***************************************************************************)
(* Regular expressions (python re): a pattern is a sequence of atoms       *)
(***************************************************************************)
Lit(w) == [k |-> "lit", v |-> w, alts |-> <<>>]

\* \b
B == [k |-> "b", v |-> "", alts |-> <<>>]

\* \s*
Ws == [k |-> "ws*", v |-> "", alts |-> <<>>]

\* .?
AnyOpt == [k |-> "any?", v |-> "", alts |-> <<>>]

\* .*
AnyStar == [k |-> "any*", v |-> "", alts |-> <<>>]

\* [\s-]?
SepOpt == [k |-> "sep?", v |-> "", alts |-> <<>>]

\* \d+
DigitRun == [k |-> "digits", v |-> "", alts |-> <<>>]

\* [\+\-\*\/]
Op == [k |-> "op", v |-> "", alts |-> <<>>]

\* x?  for a literal character x
LitOpt(w) == [k |-> "lit?", v |-> w, alts |-> <<>>]

\* (?:a|b|...)  over sub-patterns
Alt(ps) == [k |-> "alt", v |-> "", alts |-> ps]

\* (?:w1|w2|...)  over literal words
Words(ws) == Alt([i \in 1..Len(ws) |-> <<Lit(ws[i])>>])

\* \b(?:w1|w2|...)\b
BWords(ws) == <<B, Words(ws), B>>

Operators == {"+", "-", "*", "/"}

Boundary(s, p) ==
    LET before == p > 1 /\ IsWordChar(CharAt(s, p - 1))
        after  == p <= Len(s) /\ IsWordChar(CharAt(s, p))
    IN  before # after

Min(S) == CHOOSE x \in S : \A y \in S : x <= y

\* the end (exclusive) of the longest run of digits that starts at i
DigitRunEnd(s, i) ==
    Min({q \in (i + 1)..(Len(s) + 1) : q = Len(s) + 1 \/ ~IsDigit(CharAt(s, q))})

\* the positions of P at which a run of digits is entered: a digit that no
\* earlier position of P reaches through digits only
DigitRunStarts(s, P) ==
    {p \in P : /\ p <= Len(s) /\ IsDigit(CharAt(s, p))
               /\ ~(p - 1 \in P /\ IsDigit(CharAt(s, p - 1)))}

RECURSIVE MatchEnds(_, _, _)
\* the positions at which a match of the atoms can end when it starts at a
\* position of P
MatchEnds(atoms, s, P) ==
    IF atoms = <<>> \/ P = {} THEN P
    ELSE LET a == Head(atoms)
             Q == CASE a.k = "lit"    -> {p + Len(a.v) : p \in {q \in P : LitAt(s, q, a.v)}}
                    [] a.k = "lit?"   -> P \cup {p + Len(a.v) : p \in {q \in P : LitAt(s, q, a.v)}}
                    [] a.k = "b"      -> {p \in P : Boundary(s, p)}
                    [] a.k = "ws*"    -> {q \in 1..(Len(s) + 1) : q \in P \/ \E p \in P :
                                            p <= q /\ \A j \in p..(q - 1) : CharAt(s, j) \in WhiteSpace}
                    [] a.k = "any?"   -> P \cup {p + 1 : p \in {q \in P : q <= Len(s) /\ CharAt(s, q) # "\n"}}
                    [] a.k = "any*"   -> {q \in 1..(Len(s) + 1) : q \in P \/ \E p \in P :
                                            p <= q /\ \A j \in p..(q - 1) : CharAt(s, j) # "\n"}
                    [] a.k = "sep?"   -> P \cup {p + 1 : p \in {q \in P :
                                            q <= Len(s) /\ CharAt(s, q) \in (WhiteSpace \cup {"-"})}}
                    [] a.k = "digits" -> UNION {(p + 1)..DigitRunEnd(s, p) : p \in DigitRunStarts(s, P)}
                    [] a.k = "op"     -> {p + 1 : p \in {q \in P : q <= Len(s) /\ CharAt(s, q) \in Operators}}
                    [] a.k = "alt"    -> UNION {MatchEnds(a.alts[i], s, P) : i \in 1..Len(a.alts)}
         IN  MatchEnds(Tail(atoms), s, Q)

\* re.search(pattern, s) is not None: a match starts at some position
re_search(pat, s) == MatchEnds(pat, s, 1..(Len(s) + 1)) # {}

\* the start of the leftmost match of re.search(pattern, s)
MatchStart(pat, s) ==
    CHOOSE i \in 1..(Len(s) + 1) :
        /\ MatchEnds(pat, s, {i}) # {}
        /\ \A j \in 1..(i - 1) : MatchEnds(pat, s, {j}) = {}

\* re.search('|'.join(patterns), s) is not None
re_search_any(pats, s) == \E i \in 1..Len(pats) : re_search(pats[i], s)

\* the text matched by re.search(pattern, s).group() for a pattern of the form
\* \b(?:a1|a2|...)\b: leftmost start, first alternative that matches there
re_group(pat, s) ==
    LET i    == MatchStart(pat, s)
        alts == pat[2].alts
        hit(x) == MatchEnds(<<B>> \o alts[x] \o <<B>>, s, {i})
        a    == CHOOSE x \in 1..Len(alts) : hit(x) # {} /\ \A y \in 1..(x - 1) : hit(y) = {}
        e    == CHOOSE q \in hit(a) : \A r \in hit(a) : r <= q
    IN  SubSeq(s, i, e - 1)

\* the first position at or after p that holds no white space
SkipWs(s, p) ==
    CHOOSE q \in p..(Len(s) + 1) :
        /\ \A j \in p..(q - 1) : CharAt(s, j) \in WhiteSpace
        /\ (q = Len(s) + 1 \/ CharAt(s, q) \notin WhiteSpace)

(***************************************************************************)
(* planner.py: IntentClassifier                                            *)
(***************************************************************************)
location_patterns == <<
    BWords(<<"petaling jaya", "pj">>),
    BWords(<<"kuala lumpur", "kl">>),
    <<B, Alt(<< <<Lit("ss"), Ws, Lit("2")>>, <<Lit("ss2")>> >>), B>>,
    <<B, Alt(<< <<Lit("ss"), Ws, Lit("15")>>, <<Lit("ss15")>> >>), B>>,
    BWords(<<"damansara utama">>),
    BWords(<<"klcc">>),
    BWords(<<"bukit bintang">>) >>

malaysia_cities == <<
    BWords(<<"kuala lumpur", "kl", "johor", "penang", "selangor", "sabah", "sarawak">>),
    BWords(<<"ipoh", "malacca", "melaka", "kuching", "kota kinabalu", "shah alam">>),
    BWords(<<"petaling jaya", "pj", "subang jaya", "klang", "ampang">>) >>

math_pattern == <<DigitRun, Ws, Op, Ws, DigitRun>>

calculation_patterns == <<
    math_pattern,
    <<Words(<<"calculate", "compute", "math", "plus", "minus", "times", "divided", "sum", "total">>)>> >>

weather_current_patterns == <<
    <<B, Alt(<< <<Lit("weather")>>, <<Lit("temperature")>>, <<Lit("temp")>>, <<Lit("climate")>>,
                <<Lit("condition"), LitOpt("s")>> >>), B>>,
    BWords(<<"hot", "cold", "warm", "cool", "humid", "dry">>),
    <<B, Words(<<"current", "now", "today", "right now">>), B, AnyStar,
      B, Words(<<"weather", "temperature">>), B>>,
    <<B, Alt(<< <<Lit("what"), LitOpt("'"), Lit("s the weather")>>,
                <<Lit("how"), LitOpt("'"), Lit("s the weather")>>,
                <<Lit("weather like")>> >>), B>> >>

weather_forecast_patterns == <<
    <<B, Alt(<< <<Lit("forecast")>>, <<Lit("tomorrow")>>, <<Lit("next")>>, <<Lit("week")>>,
                <<Lit("day"), LitOpt("s")>>, <<Lit("future")>> >>), B, AnyStar,
      B, Words(<<"weather", "rain", "storm">>), B>>,
    BWords(<<"will it rain", "going to rain", "rain today", "rain tomorrow">>),
    BWords(<<"weather for", "forecast for">>),
    <<B, Alt(<< <<Lit("3"), SepOpt, Lit("day")>>, <<Lit("weekly")>>, <<Lit("weekend")>> >>),
      Lit(" "), Words(<<"weather", "forecast">>), B>> >>

greeting_patterns == <<
    BWords(<<"hi", "hello", "hey", "good morning", "good afternoon", "good evening">>) >>

goodbye_patterns == <<
    BWords(<<"bye", "goodbye", "thank you", "thanks", "see you">>) >>

product_patterns == <<
    BWords(<<"product", "products", "drinkware", "mug", "mugs", "cup", "cups", "tumbler",
             "tumblers", "bottle", "bottles">>),
    BWords(<<"travel mug", "coffee mug", "espresso cup", "french press", "cold brew", "thermal",
             "carafe">>),
    BWords(<<"ceramic", "stainless steel", "bamboo", "glass", "eco-friendly">>),
    BWords(<<"buy", "purchase", "shop", "store", "merchandise", "buy online">>) >>

advanced_outlet_patterns == <<
    <<B, Words(<<"find", "search", "locate", "discover">>), B, AnyStar,
      B, Words(<<"outlet", "store", "branch", "location">>), B>>,
    <<B, Alt(<< <<Lit("drive"), AnyOpt, Lit("thru")>>, <<Lit("drive"), AnyOpt, Lit("through")>> >>), B>>,
    <<B, Alt(<< <<Lit("24"), AnyOpt, Lit("hour")>>, <<Lit("24"), AnyOpt, Lit("hours")>>,
                <<Lit("overnight")>>, <<Lit("late night")>> >>), B>>,
    <<B, Alt(<< <<Lit("parking")>>, <<Lit("wifi")>>, <<Lit("meeting")>>,
                <<Lit("family"), AnyOpt, Lit("friendly")>>,
                <<Lit("student"), AnyOpt, Lit("friendly")>> >>), B>>,
    BWords(<<"near", "nearby", "close to", "around">>) >>

forecast_days_pattern == <<DigitRun, SepOpt, Lit("day")>>

(***************************************************************************)
(* python values: None, dicts (functions on a set of keys), exceptions     *)
(***************************************************************************)
None == "<None>"

\* a session_context argument that is None instead of a dict
NoContext == [isNone |-> TRUE]

EmptyDict == <<>>

Has(d, key) == key \in DOMAIN d

\* python:  d.get(key)
get(d, key) == IF key \in DOMAIN d THEN d[key] ELSE None

\* python:  d.get(key, default)
get_or(d, key, default) == IF key \in DOMAIN d THEN d[key] ELSE default

\* python truth value of a string or None
Truthy(v) == v # None /\ v # ""

Raise(cls) == [raised |-> TRUE, exc |-> cls]

Value(v) == [raised |-> FALSE, value |-> v]

(***************************************************************************)
(* planner.py: IntentClassifier.classify_intent                            *)
(***************************************************************************)
\* confidences are in tenths: 0.8 is 8
ParsedIntent(intent, entities, missing_info, confidence) ==
    [raised |-> FALSE, intent |-> intent, entities |-> entities,
     missing_info |-> missing_info, confidence |-> confidence]

\* the first pattern of the list that matches gives the entity
extract_entity(patterns, message_lower, key) ==
    LET hits == {i \in 1..Len(patterns) : re_search(patterns[i], message_lower)}
    IN  IF hits = {} THEN EmptyDict
        ELSE key :> re_group(patterns[Min(hits)], message_lower)

\* group(1) of the leftmost match of the pattern, which starts at i
forecast_days_group(message_lower, i) == SubSeq(message_lower, i, DigitRunEnd(message_lower, i) - 1)

extract_forecast_days(message_lower) ==
    IF re_search(forecast_days_pattern, message_lower)
    THEN "forecast_days" :> int(forecast_days_group(message_lower,
                                                    MatchStart(forecast_days_pattern, message_lower)))
    ELSE EmptyDict

\* int(forecast_match.group(1)) raises
forecast_days_raises(message_lower) ==
    /\ re_search(forecast_days_pattern, message_lower)
    /\ int_raises(forecast_days_group(message_lower, MatchStart(forecast_days_pattern, message_lower)))

\* math_match of the calculation branch: the three groups of the leftmost match
extract_math(message) ==
    LET i  == MatchStart(math_pattern, message)
        e1 == DigitRunEnd(message, i)
        o  == SkipWs(message, e1)
        b  == SkipWs(message, o + 1)
    IN  ("operand1" :> int(SubSeq(message, i, e1 - 1)))
        @@ ("operator" :> CharAt(message, o))
        @@ ("operand2" :> int(SubSeq(message, b, DigitRunEnd(message, b) - 1)))

\* the second operand of the match whose first operand ends before e1
operand2_raises(message, b) == int_raises(SubSeq(message, b, DigitRunEnd(message, b) - 1))

operand1_raises(message, i, e1) ==
    \/ int_raises(SubSeq(message, i, e1 - 1))
    \/ operand2_raises(message, SkipWs(message, SkipWs(message, e1) + 1))

\* int(math_match.group(1)) or int(math_match.group(3)) raises
math_raises(message, i) == operand1_raises(message, i, DigitRunEnd(message, i))

vague_weather_terms == {"weather", "temperature", "temp", "climate"}

vague_outlet_terms == {"outlet", "outlets", "store", "stores", "shop", "shops", "show outlets", "find outlets"}

outlet_keywords == {"outlet", "store", "shop", "mall"}

hours_keywords == {"hour", "time", "open", "close", "when"}

location_keywords == {"address", "where", "located"}

phone_keywords == {"phone", "number", "contact", "call"}

vague_calc_words == {"calculate", "computation", "math"}

\* the branch shared by the hours, location and phone keywords: the context
\* is read only when the message names no location
context_branch(intent, entities, session_context) ==
    IF Has(entities, "location") THEN ParsedIntent(intent, entities, <<>>, 8)
    ELSE IF session_context = NoContext THEN Raise("AttributeError")
    ELSE IF ~Truthy(get(session_context, "area")) THEN ParsedIntent(intent, entities, <<"location">>, 8)
    ELSE ParsedIntent(intent, entities, <<>>, 8)

\* the entities extracted from the message, whatever its intent
extract_entities(message_lower) ==
    extract_entity(location_patterns, message_lower, "location")
    @@ extract_entity(malaysia_cities, message_lower, "weather_location")
    @@ extract_forecast_days(message_lower)

\* the keyword branches with the hours keywords tested before the outlet
\* keywords
keyword_cascade_hours_first(message_lower, entities, session_context) ==
    IF \E w \in hours_keywords : Contains(message_lower, w)
        THEN context_branch("hours_inquiry", entities, session_context)
    ELSE IF \E w \in outlet_keywords : Contains(message_lower, w)
        THEN IF Has(entities, "location") THEN ParsedIntent("outlet_search", entities, <<>>, 8)
             ELSE ParsedIntent("outlet_search", entities, <<"location">>,
                               IF strip(message_lower) \in vague_outlet_terms THEN 6 ELSE 8)
    ELSE IF \E w \in location_keywords : Contains(message_lower, w)
        THEN context_branch("location_inquiry", entities, session_context)
    ELSE IF \E w \in phone_keywords : Contains(message_lower, w)
        THEN context_branch("phone_inquiry", entities, session_context)
    ELSE IF strip(message_lower) \in vague_calc_words
        THEN ParsedIntent("calculation", entities, <<"calculation_expression">>, 5)
    ELSE ParsedIntent("unclear", entities, <<"clarification">>, 3)

\* the last branches of the cascade, those that test keywords and not
\* patterns: outlet, hours, location, phone, the vague calculation words,
\* and unclear
keyword_cascade(message_lower, entities, session_context) ==
    IF \E w \in outlet_keywords : Contains(message_lower, w)
        THEN IF Has(entities, "location") THEN ParsedIntent("outlet_search", entities, <<>>, 8)
             ELSE ParsedIntent("outlet_search", entities, <<"location">>,
                               IF strip(message_lower) \in vague_outlet_terms THEN 6 ELSE 8)
    ELSE IF \E w \in hours_keywords : Contains(message_lower, w)
        THEN context_branch("hours_inquiry", entities, session_context)
    ELSE IF \E w \in location_keywords : Contains(message_lower, w)
        THEN context_branch("location_inquiry", entities, session_context)
    ELSE IF \E w \in phone_keywords : Contains(message_lower, w)
        THEN context_branch("phone_inquiry", entities, session_context)
    ELSE IF strip(message_lower) \in vague_calc_words
        THEN ParsedIntent("calculation", entities, <<"calculation_expression">>, 5)
    ELSE ParsedIntent("unclear", entities, <<"clarification">>, 3)

\* the cascade that determines the intent: the first branch that matches
determine_intent(message, message_lower, entities, session_context) ==
    IF re_search_any(greeting_patterns, message_lower)
        THEN ParsedIntent("greeting", entities, <<>>, 9)
    ELSE IF re_search_any(goodbye_patterns, message_lower)
        THEN ParsedIntent("goodbye", entities, <<>>, 9)
    ELSE IF re_search_any(calculation_patterns, message_lower)
        THEN IF re_search(math_pattern, message)
             THEN IF math_raises(message, MatchStart(math_pattern, message))
                  THEN Raise("ValueError")
                  ELSE ParsedIntent("calculation", extract_math(message) @@ entities, <<>>, 8)
             ELSE ParsedIntent("calculation", entities, <<"calculation_expression">>, 6)
    ELSE IF re_search_any(weather_forecast_patterns, message_lower)
        THEN ParsedIntent("weather_forecast",
                          IF Has(entities, "forecast_days") THEN entities
                          ELSE entities @@ ("forecast_days" :> 3), <<>>, 8)
    ELSE IF re_search_any(weather_current_patterns, message_lower)
        THEN IF ~Has(entities, "weather_location") /\ strip(message_lower) \in vague_weather_terms
             THEN ParsedIntent("weather_current", entities, <<"location">>, 6)
             ELSE ParsedIntent("weather_current", entities, <<>>, 8)
    ELSE IF re_search_any(product_patterns, message_lower)
        THEN ParsedIntent("product_search", ("product_query" :> message_lower) @@ entities, <<>>, 8)
    ELSE IF re_search_any(advanced_outlet_patterns, message_lower)
        THEN ParsedIntent("outlet_search_nl", ("outlet_query" :> message_lower) @@ entities, <<>>, 8)
    ELSE keyword_cascade(message_lower, entities, session_context)

\* an empty message is answered before anything is extracted
classify_lowered(message, message_lower, session_context) ==
    IF message_lower = "" THEN ParsedIntent("unclear", EmptyDict, <<"message">>, 0)
    ELSE IF forecast_days_raises(message_lower) THEN Raise("ValueError")
    ELSE determine_intent(message, message_lower, extract_entities(message_lower), session_context)

classify_intent(message, session_context) ==
    classify_lowered(message, strip(lower(message)), session_context)

(***************************************************************************)
(* outlets.py: the outlet catalog, in the order _get_outlets_data lists it *)
(***************************************************************************)
OutletInfo(name, location, area, opening_time, closing_time, phone, address) ==
    [name |-> name, location |-> location, area |-> area, opening_time |-> opening_time,
     closing_time |-> closing_time, phone |-> phone, address |-> address]

OUTLETS_DATA == <<
    OutletInfo("SS 2 Outlet", "SS 2", "Petaling Jaya", "9:00 AM", "10:00 PM", "+603-7876-5432",
               "No. 15, Jalan SS 2/24, SS 2, 47300 Petaling Jaya, Selangor"),
    OutletInfo("SS 15 Outlet", "SS 15", "Petaling Jaya", "8:30 AM", "9:30 PM", "+603-7876-1234",
               "No. 8, Jalan SS 15/3A, SS 15, 47500 Petaling Jaya, Selangor"),
    OutletInfo("Damansara Utama Outlet", "Damansara Utama", "Petaling Jaya", "10:00 AM", "11:00 PM",
               "+603-7726-8888", "G-12, Damansara Utama, 47400 Petaling Jaya, Selangor"),
    OutletInfo("KLCC Outlet", "KLCC", "Kuala Lumpur", "10:00 AM", "10:00 PM", "+603-2161-9999",
               "Level 2, Suria KLCC, 50088 Kuala Lumpur"),
    OutletInfo("Bukit Bintang Outlet", "Bukit Bintang", "Kuala Lumpur", "11:00 AM", "11:30 PM",
               "+603-2148-7777", "Lot 10 Shopping Centre, 50 Jalan Sultan Ismail, 50250 Kuala Lumpur") >>

\* the keys of the OUTLETS_DATA dict of outlets.py
OUTLET_AREAS == {"petaling_jaya", "kuala_lumpur"}

(***************************************************************************)
(* planner.py: ToolExecutor                                                *)
(***************************************************************************)
\* the indices of the catalog a search keeps: by location when one is given,
\* else by area, else all of them
filter_outlets(location, area) ==
    IF Truthy(location)
    THEN {i \in 1..Len(OUTLETS_DATA) :
            \/ Contains(lower(OUTLETS_DATA[i].location), lower(location))
            \/ Contains(lower(OUTLETS_DATA[i].area), lower(location))}
    ELSE IF Truthy(area)
    THEN {i \in 1..Len(OUTLETS_DATA) : Contains(lower(OUTLETS_DATA[i].area), lower(area))}
    ELSE 1..Len(OUTLETS_DATA)

RECURSIVE render_lines(_, _, _)
\* the lines of a result, one per kept outlet in catalog order; the bullet
\* character of the source is written "*"
render_lines(kept, i, lines) ==
    IF i > Len(lines) THEN ""
    ELSE (IF i \in kept THEN "* " \o lines[i] \o "\n" ELSE "")
         \o render_lines(kept, i + 1, lines)

NO_OUTLETS_FOUND == "No outlets found matching your criteria."

search_outlets(params) ==
    LET kept == filter_outlets(get(params, "location"), get(params, "area"))
        lines == [i \in 1..Len(OUTLETS_DATA) |->
                    OUTLETS_DATA[i].name \o " - " \o OUTLETS_DATA[i].location]
    IN  IF kept = {} THEN NO_OUTLETS_FOUND
        ELSE "Found " \o str(Cardinality(kept)) \o " outlet(s):\n" \o render_lines(kept, 1, lines)

get_hours_info(params) ==
    LET location == get(params, "location")
        area == get(params, "area")
        kept == filter_outlets(location, area)
        lines == [i \in 1..Len(OUTLETS_DATA) |->
                    OUTLETS_DATA[i].name \o ": " \o OUTLETS_DATA[i].opening_time
                    \o " - " \o OUTLETS_DATA[i].closing_time]
    IN  IF ~Truthy(location) /\ ~Truthy(area) THEN "Please specify which outlet you'd like hours for."
        ELSE IF kept = {} THEN NO_OUTLETS_FOUND
        ELSE "Opening hours:\n" \o render_lines(kept, 1, lines)

RECURSIVE fraction_digits(_, _, _)
\* the decimal digits of r / b (r < b), at most n of them
fraction_digits(r, b, n) ==
    IF r = 0 \/ n = 0 THEN ""
    ELSE str((10 * r) \div b) \o fraction_digits((10 * r) % b, b, n - 1)

\* str(a / b) of python for non-negative operands whose quotient has a finite
\* decimal expansion; any other quotient is written "<float>"
float_str(a, b) ==
    LET frac == fraction_digits(a % b, b, 6)
        exact == \E k \in 0..6 : ((a % b) * (10 ^ k)) % b = 0
    IN  IF ~exact THEN "<float>"
        ELSE str(a \div b) \o "." \o (IF frac = "" THEN "0" ELSE frac)

\* the try body of execute_calculation.  t1 and t2 are the types of the
\* operands: the annotations are not enforced, and arithmetic on an operand
\* that is None raises TypeError
calculation_try(t1, operand1, operator, t2, operand2) ==
    IF operator = "/" /\ t2 = "int" /\ operand2 = 0 THEN Value("Error: Cannot divide by zero")
    ELSE IF operator \notin Operators THEN Value("Error: Unsupported operator")
    ELSE IF t1 # "int" \/ t2 # "int"
    THEN [raised |-> TRUE, exc |-> "TypeError",
          text |-> "unsupported operand type(s) for " \o operator \o ": '" \o t1 \o "' and '" \o t2 \o "'"]
    ELSE Value(str(operand1) \o " " \o operator \o " " \o str(operand2) \o " = "
               \o (CASE operator = "+" -> str(operand1 + operand2)
                     [] operator = "-" -> str(operand1 - operand2)
                     [] operator = "*" -> str(operand1 * operand2)
                     [] operator = "/" -> float_str(operand1, operand2)))

\* execute_calculation without its except clause
calculation_uncaught(tried) == tried

\* except Exception as e: return f"Calculation error: {str(e)}"
calculation_caught(tried) ==
    IF tried.raised THEN Value("Calculation error: " \o tried.text) ELSE tried

execute_calculation(operand1, operator, operand2) ==
    calculation_caught(calculation_try("int", operand1, operator, "int", operand2)).value

(***************************************************************************)
(* The remote collaborators: what one HTTP call of a tool comes back with  *)
(***************************************************************************)
\* kind: "ok" (status 200, well-formed body), "malformed" (status 200, a body
\* that lacks a key), "status" (another status code), "timeout"
\* (httpx.TimeoutException), "exception" (any other exception, with its text)
Outcome(kind, code, text) == [kind |-> kind, code |-> code, text |-> text]

OkOutcome == Outcome("ok", 200, "Penang, Malaysia")

Outcomes == {
    OkOutcome,
    Outcome("malformed", 200, "'current'"),
    Outcome("status", 500, ""),
    Outcome("status", 401, ""),
    Outcome("timeout", 0, ""),
    Outcome("exception", 0, "Connection refused") }

(***************************************************************************)
(* weather_agent.py: WeatherAgent                                          *)
(***************************************************************************)
default_location == "Kuala Lumpur, Malaysia"

\* the dict get_current_weather returns; the provider's readings are left
\* out of the formatted response
weather_agent_get_current_weather(location, outcome) ==
    CASE outcome.kind = "ok" ->
            ("success" :> "True") @@ ("formatted_response" :> "**Current Weather for " \o outcome.text \o "**")
      [] outcome.kind = "malformed" ->
            ("error" :> "Unexpected weather data format: missing " \o outcome.text)
      [] outcome.kind = "status" ->
            ("error" :> "Weather API error: " \o str(outcome.code)) @@ ("details" :> "Unknown error")
      [] outcome.kind = "timeout" ->
            ("error" :> "Weather API request timed out")
      [] outcome.kind = "exception" ->
            ("error" :> "Failed to fetch weather data: " \o outcome.text)

clamp_days(days) == IF days < 1 THEN 1 ELSE IF days > 10 THEN 10 ELSE days

weather_agent_get_weather_forecast(days, location, outcome) ==
    CASE outcome.kind = "ok" ->
            ("success" :> "True")
            @@ ("formatted_response" :> "**" \o str(clamp_days(days)) \o "-Day Weather Forecast for "
                                        \o outcome.text \o "**")
      [] outcome.kind = "malformed" ->
            ("error" :> "Unexpected forecast data format: missing " \o outcome.text)
      [] outcome.kind = "status" ->
            ("error" :> "Weather API error: " \o str(outcome.code)) @@ ("details" :> "Unknown error")
      [] outcome.kind = "timeout" ->
            ("error" :> "Weather API request timed out")
      [] outcome.kind = "exception" ->
            ("error" :> "Failed to fetch forecast data: " \o outcome.text)

(***************************************************************************)
(* planner.py: ToolExecutor, the tools that call a collaborator            *)
(***************************************************************************)
WEATHER_UNAVAILABLE ==
    "I'm sorry, but the weather service is currently unavailable. Please try again later or contact support."

WEATHER_TIMEOUT ==
    "The weather service is taking longer than expected to respond. Please try again in a moment."

WEATHER_ISSUES == "The weather service is currently experiencing issues. Please try again later."

\* the degraded message for the "error" entry of the agent's result
weather_error_message(error_msg, unable_prefix) ==
    IF Contains(lower(error_msg), "timeout") THEN WEATHER_TIMEOUT
    ELSE IF Contains(lower(error_msg), "api") /\ Contains(lower(error_msg), "error") THEN WEATHER_ISSUES
    ELSE unable_prefix \o error_msg

get_current_weather(weather_agent, location, outcome) ==
    IF ~weather_agent THEN WEATHER_UNAVAILABLE
    ELSE LET result == weather_agent_get_current_weather(location, outcome)
         IN  IF Truthy(get(result, "success")) THEN result["formatted_response"]
             ELSE IF Truthy(get(result, "error"))
                  THEN weather_error_message(result["error"],
                                             "I'm unable to fetch weather information at the moment. ")
             ELSE "I couldn't retrieve weather information right now. Please try again later."

get_weather_forecast(weather_agent, days, location, outcome) ==
    IF ~weather_agent THEN WEATHER_UNAVAILABLE
    ELSE LET result == weather_agent_get_weather_forecast(days, location, outcome)
         IN  IF Truthy(get(result, "success")) THEN result["formatted_response"]
             ELSE IF Truthy(get(result, "error"))
                  THEN weather_error_message(result["error"],
                                             "I'm unable to fetch weather forecast at the moment. ")
             ELSE "I couldn't retrieve weather forecast right now. Please try again later."

\* GET /products of this service: the answer of the product knowledge base
search_products(query, outcome) ==
    CASE outcome.kind = "ok" -> "Products for: " \o query
      [] outcome.kind = "malformed" -> "No products found."
      [] outcome.kind = "status" -> "I'm unable to search products at the moment. Please try again later."
      [] outcome.kind \in {"timeout", "exception"} ->
            "Product search is currently unavailable: " \o outcome.text

\* GET /outlets/search of this service: the rows of the text-to-SQL query
search_outlets_nl(query, outcome) ==
    CASE outcome.kind = "ok" -> "Found 1 outlet(s):\n\n" \o "Outlets for: " \o query
      [] outcome.kind = "malformed" -> NO_OUTLETS_FOUND
      [] outcome.kind = "status" -> "I'm unable to search outlets at the moment. Please try again later."
      [] outcome.kind \in {"timeout", "exception"} ->
            "Outlet search is currently unavailable: " \o outcome.text

(***************************************************************************)
(* planner.py: ActionPlanner.plan_action                                   *)
(***************************************************************************)
PlannedAction(action_type, parameters, reasoning, required_tools) ==
    [action_type |-> action_type, parameters |-> parameters, reasoning |-> reasoning,
     required_tools |-> required_tools]

GREETING_MESSAGE ==
    "Hello! I'm here to help you find information about our outlets. How can I assist you today?"

FAREWELL_MESSAGE == "Thank you for using our outlet assistant! Have a great day!"

CALC_QUESTION ==
    "I'd be happy to help with calculations! Could you please provide a clear math expression? For example: '5 + 3' or '10 * 2'"

WEATHER_QUESTION ==
    "Which city would you like the weather for? I can provide weather for any Malaysian city. If you don't specify, I'll show weather for Kuala Lumpur."

FORECAST_QUESTION ==
    "Which city would you like the weather forecast for? I can provide forecasts for any Malaysian city."

AREA_QUESTION ==
    "Which area are you interested in? We have outlets in Petaling Jaya (SS 2, SS 15, Damansara Utama) and Kuala Lumpur (KLCC, Bukit Bintang)."

HOURS_QUESTION == "Which outlet would you like the opening hours for? Please specify the location."

UNCLEAR_QUESTION ==
    "I'm not sure I understand. Are you looking for outlet locations, opening hours, contact information, or something else? I can also help with simple calculations!"

FALLBACK_QUESTION ==
    "How can I help you today? I can provide information about our outlet locations, hours, contact details, current weather conditions, and weather forecasts for Malaysia."

InSeq(x, seq) == \E i \in 1..Len(seq) : seq[i] = x

\* search_params of the outlet_search branch with the context's area added
\* to the location entity
outlet_search_params_both(intent, session_context) ==
    (IF Has(intent.entities, "location") THEN "location" :> intent.entities["location"] ELSE EmptyDict)
    @@ (IF Truthy(get(session_context, "area")) THEN "area" :> session_context["area"] ELSE EmptyDict)

\* search_params of the outlet_search branch
outlet_search_params(intent, session_context) ==
    IF Has(intent.entities, "location") THEN "location" :> intent.entities["location"]
    ELSE IF Truthy(get(session_context, "area")) THEN "area" :> session_context["area"]
    ELSE EmptyDict

\* search_params of the hours_inquiry branch with the context's area tried
\* before the location entity
hours_search_params_area_first(intent, session_context) ==
    IF Truthy(get(session_context, "area")) THEN "area" :> session_context["area"]
    ELSE IF Has(intent.entities, "location") THEN "location" :> intent.entities["location"]
    ELSE IF Truthy(get(session_context, "last_outlet_mentioned"))
        THEN "location" :> session_context["last_outlet_mentioned"]
    ELSE IF Truthy(get(session_context, "specific_location"))
        THEN "location" :> session_context["specific_location"]
    ELSE EmptyDict

\* search_params of the hours_inquiry branch
hours_search_params(intent, session_context) ==
    IF Has(intent.entities, "location") THEN "location" :> intent.entities["location"]
    ELSE IF Truthy(get(session_context, "last_outlet_mentioned"))
        THEN "location" :> session_context["last_outlet_mentioned"]
    ELSE IF Truthy(get(session_context, "specific_location"))
        THEN "location" :> session_context["specific_location"]
    ELSE IF Truthy(get(session_context, "area")) THEN "area" :> session_context["area"]
    ELSE EmptyDict

\* fallback_action with a member of ActionType that is not one of the nine
fallback_action_rag ==
    PlannedAction("rag_search", "question" :> FALLBACK_QUESTION,
                  "Fallback action for unhandled intents", <<>>)

\* the default branch: every intent without a branch of its own
fallback_action ==
    PlannedAction("ask_clarification", "question" :> FALLBACK_QUESTION,
                  "Fallback action for unhandled intents", <<>>)

plan_action(intent, session_context) ==
    CASE intent.intent = "greeting" ->
            PlannedAction("provide_info", "message" :> GREETING_MESSAGE,
                          "User greeted the bot, respond warmly and offer help", <<>>)
      [] intent.intent = "goodbye" ->
            PlannedAction("finish", "message" :> FAREWELL_MESSAGE,
                          "User is ending conversation, provide polite farewell", <<>>)
      [] intent.intent = "calculation" ->
            IF intent.missing_info # <<>>
            THEN PlannedAction("ask_clarification", "question" :> CALC_QUESTION,
                               "Missing calculation expression, need clarification", <<>>)
            ELSE PlannedAction("calculate", intent.entities,
                               "User wants calculation and all parameters are available", <<"calculator">>)
      [] intent.intent = "weather_current" ->
            IF InSeq("location", intent.missing_info)
            THEN PlannedAction("ask_clarification", "question" :> WEATHER_QUESTION,
                               "Very vague weather request, asking for clarification", <<>>)
            ELSE PlannedAction("get_weather",
                               "location" :> get_or(intent.entities, "weather_location", default_location),
                               "User wants current weather information", <<"weather_api">>)
      [] intent.intent = "weather_forecast" ->
            IF InSeq("location", intent.missing_info)
            THEN PlannedAction("ask_clarification", "question" :> FORECAST_QUESTION,
                               "Missing location for weather forecast", <<>>)
            ELSE PlannedAction("get_forecast",
                               ("location" :> get_or(intent.entities, "weather_location", default_location))
                               @@ ("days" :> get_or(intent.entities, "forecast_days", 3)),
                               "User wants weather forecast information", <<"weather_api">>)
      [] intent.intent = "product_search" ->
            PlannedAction("search_products", "query" :> get_or(intent.entities, "product_query", ""),
                          "User wants to search for ZUS Coffee drinkware products", <<"product_kb">>)
      [] intent.intent = "outlet_search_nl" ->
            PlannedAction("search_outlets_nl", "query" :> get_or(intent.entities, "outlet_query", ""),
                          "User wants to search outlets using natural language query", <<"outlets_db">>)
      [] intent.intent = "outlet_search" ->
            IF InSeq("location", intent.missing_info) /\ ~Truthy(get(session_context, "area"))
            THEN PlannedAction("ask_clarification", "question" :> AREA_QUESTION,
                               "Missing location information for outlet search", <<>>)
            ELSE PlannedAction("search_outlets", outlet_search_params(intent, session_context),
                               "User wants outlet information and location is available",
                               <<"outlet_search">>)
      [] intent.intent = "hours_inquiry" ->
            IF /\ InSeq("location", intent.missing_info)
               /\ ~Truthy(get(session_context, "area"))
               /\ ~Truthy(get(session_context, "last_outlet_mentioned"))
            THEN PlannedAction("ask_clarification", "question" :> HOURS_QUESTION,
                               "Missing location information for hours inquiry", <<>>)
            ELSE PlannedAction("provide_info",
                               ("tool_call" :> "get_hours_info")
                               @@ ("tool_params" :> hours_search_params(intent, session_context)),
                               "User wants hours information and location is available from context",
                               <<"outlet_search">>)
      [] intent.intent = "unclear" ->
            PlannedAction("ask_clarification", "question" :> UNCLEAR_QUESTION,
                          "User intent is unclear, need clarification", <<>>)
      [] OTHER -> fallback_action

(***************************************************************************)
(* planner.py: AgenticPlanner.process_message                              *)
(***************************************************************************)
\* what the environment of one call is: whether the weather agent was built
\* (WEATHER_API_KEY set), what the call of a remote tool comes back with, and
\* the step, if any, in which an unexpected exception is raised
Env(weather_agent, outcome, fault) == [weather_agent |-> weather_agent, outcome |-> outcome, fault |-> fault]

Faults == {"none", "classify", "plan", "tool"}

\* the tool Step 3 invokes for an action, "" when it invokes none
tool_of(action) ==
    CASE action.action_type = "calculate" -> "execute_calculation"
      [] action.action_type = "search_outlets" -> "search_outlets"
      [] action.action_type = "get_weather" -> "get_current_weather"
      [] action.action_type = "get_forecast" -> "get_weather_forecast"
      [] action.action_type = "search_products" -> "search_products"
      [] action.action_type = "search_outlets_nl" -> "search_outlets_nl"
      [] OTHER -> IF get(action.parameters, "tool_call") = "get_hours_info" THEN "get_hours_info" ELSE ""

\* the tools that await an HTTP call
REMOTE_TOOLS == {"get_current_weather", "get_weather_forecast", "search_products", "search_outlets_nl"}

\* Step 3: the string the tool returns
execute_tool(action, env) ==
    LET ps == action.parameters
    IN  CASE tool_of(action) = "execute_calculation" ->
                execute_calculation(ps["operand1"], ps["operator"], ps["operand2"])
          [] tool_of(action) = "search_outlets" -> search_outlets(ps)
          [] tool_of(action) = "get_current_weather" ->
                get_current_weather(env.weather_agent, get(ps, "location"), env.outcome)
          [] tool_of(action) = "get_weather_forecast" ->
                get_weather_forecast(env.weather_agent, get_or(ps, "days", 3), get(ps, "location"), env.outcome)
          [] tool_of(action) = "search_products" -> search_products(get_or(ps, "query", ""), env.outcome)
          [] tool_of(action) = "search_outlets_nl" -> search_outlets_nl(get_or(ps, "query", ""), env.outcome)
          [] tool_of(action) = "get_hours_info" -> get_hours_info(ps["tool_params"])

PJ_TERMS == {"petaling jaya", "pj", "ss 2", "ss2", "ss 15", "ss15", "damansara"}

KL_TERMS == {"kuala lumpur", "kl", "klcc", "bukit bintang"}

\* Step 4: the context updates a location entity gives
context_updates_of(intent) ==
    IF ~Has(intent.entities, "location") THEN EmptyDict
    ELSE LET location == lower(intent.entities["location"])
             last == "last_outlet_mentioned" :> intent.entities["location"]
         IN  IF \E t \in PJ_TERMS : Contains(location, t)
             THEN last @@ ("area" :> "petaling_jaya")
                  @@ (IF Contains(location, "ss 2") \/ Contains(location, "ss2")
                      THEN "specific_location" :> "ss 2"
                      ELSE IF Contains(location, "ss 15") \/ Contains(location, "ss15")
                      THEN "specific_location" :> "ss 15"
                      ELSE IF Contains(location, "damansara")
                      THEN "specific_location" :> "damansara utama"
                      ELSE EmptyDict)
             ELSE IF \E t \in KL_TERMS : Contains(location, t)
             THEN last @@ ("area" :> "kuala_lumpur")
                  @@ (IF Contains(location, "klcc") THEN "specific_location" :> "klcc"
                      ELSE IF Contains(location, "bukit bintang")
                      THEN "specific_location" :> "bukit bintang"
                      ELSE EmptyDict)
             ELSE last

PlannerResult(intent, action, context_updates, tools) ==
    [raised |-> FALSE, intent |-> intent, action |-> action, context_updates |-> context_updates,
     tools |-> tools]

\* Step 3 done: the tool's string attached as parameters['message'], and
\* Step 4, the context updates.  tools lists the tools invoked, in order.
executed(intent, action, tool, env) ==
    IF env.fault = "tool" /\ tool # "" THEN Raise("Exception")
    ELSE PlannerResult(intent,
                       IF tool = "" THEN action
                       ELSE [action EXCEPT !.parameters = ("message" :> execute_tool(action, env)) @@ @],
                       context_updates_of(intent),
                       IF tool = "" THEN <<>> ELSE <<tool>>)

\* the chain invoking the tool again when it came back with a failure
after_tool_retrying(tool, env) ==
    IF tool \in REMOTE_TOOLS /\ env.outcome.kind # "ok" THEN "tools" ELSE "context"

\* where control goes after a branch of the if/elif chain of Step 3: to
\* Step 4, whatever the tool returned
after_tool(tool, env) == "context"

\* Step 2 done: the action planned for the intent
planned(intent, action, env) == executed(intent, action, tool_of(action), env)

\* Step 1 done: the intent classify_intent returned, or what it raised
classified(intent, session_context, env) ==
    IF intent.raised THEN intent
    ELSE IF env.fault = "plan" THEN Raise("Exception")
    ELSE planned(intent, plan_action(intent, session_context), env)

\* classify, plan, execute the tool the action needs, derive the context
\* updates; nothing is caught
process_message(message, session_context, env) ==
    IF env.fault = "classify" THEN Raise("Exception")
    ELSE classified(classify_intent(message, session_context), session_context, env)

(***************************************************************************)
(* memory.py: ConversationMemoryManager.  A manager mm is the record       *)
(* [sessions, uuids]: sessions maps a session id to its session, uuids     *)
(* counts the ids uuid4 has produced.  An operation returns [mm, ret]:     *)
(* the manager it leaves and the value it returns.  Timestamps are left    *)
(* out.                                                                    *)
(***************************************************************************)
window_size == 10

\* str(uuid.uuid4()): an id no earlier call produced
uuid4(n) == "uuid-" \o str(n + 1)

ConversationTurn(user_message, bot_response, turn_number) ==
    [user_message |-> user_message, bot_response |-> bot_response, turn_number |-> turn_number]

ConversationSession == [turns |-> <<>>, context |-> EmptyDict]

ConversationMemoryManager == [sessions |-> EmptyDict, uuids |-> 0]

Returns(mm, ret) == [mm |-> mm, ret |-> ret]

create_session(mm) ==
    LET session_id == uuid4(mm.uuids)
    IN  Returns([sessions |-> (session_id :> ConversationSession) @@ mm.sessions,
                 uuids |-> mm.uuids + 1],
                session_id)

\* get_or_create_session that opens the session under the id it was given
get_or_create_session_reuse(mm, session_id) ==
    IF Truthy(session_id) /\ Has(mm.sessions, session_id)
    THEN Returns(mm, session_id)
    ELSE IF Truthy(session_id)
    THEN Returns([mm EXCEPT !.sessions = (session_id :> ConversationSession) @@ @], session_id)
    ELSE create_session(mm)

get_or_create_session(mm, session_id) ==
    IF Truthy(session_id) /\ Has(mm.sessions, session_id)
    THEN Returns(mm, session_id)
    ELSE create_session(mm)

\* python:  turns[-n:]
\* the slice that keeps the oldest turns: turns[:n]
FirstTurns(turns, n) == SubSeq(turns, 1, n)

LastTurns(turns, n) == SubSeq(turns, Len(turns) - n + 1, Len(turns))

\* add_turn without its last statement: the list is never cut
add_turn_untrimmed(mm, session_id, user_message, bot_response) ==
    LET made == IF ~Has(mm.sessions, session_id) THEN create_session(mm) ELSE Returns(mm, session_id)
        sid == made.ret
        turns == made.mm.sessions[sid].turns
        turn == ConversationTurn(user_message, bot_response, Len(turns) + 1)
    IN  Returns([made.mm EXCEPT !.sessions[sid].turns = Append(turns, turn)], None)

\* add_turn that puts the new turn in the place of the list
add_turn_overwriting(mm, session_id, user_message, bot_response) ==
    LET made == IF ~Has(mm.sessions, session_id) THEN create_session(mm) ELSE Returns(mm, session_id)
        sid == made.ret
    IN  Returns([made.mm EXCEPT !.sessions[sid].turns = <<ConversationTurn(user_message, bot_response, 1)>>],
                None)

\* a session id the store does not hold gets a session under a NEW id, and
\* the turn goes there
add_turn(mm, session_id, user_message, bot_response) ==
    LET made == IF ~Has(mm.sessions, session_id) THEN create_session(mm) ELSE Returns(mm, session_id)
        sid == made.ret
        turns == made.mm.sessions[sid].turns
        turn_number == Len(turns) + 1
        appended == Append(turns, ConversationTurn(user_message, bot_response, turn_number))
        kept == IF Len(appended) > window_size THEN LastTurns(appended, window_size) ELSE appended
    IN  Returns([made.mm EXCEPT !.sessions[sid].turns = kept], None)

get_conversation_history(mm, session_id) ==
    IF ~Has(mm.sessions, session_id) THEN <<>> ELSE mm.sessions[session_id].turns

\* update_context that puts the entry in the place of the whole context
update_context_replacing(mm, session_id, key, value) ==
    IF Has(mm.sessions, session_id)
    THEN Returns([mm EXCEPT !.sessions[session_id].context = key :> value], None)
    ELSE Returns(mm, None)

update_context(mm, session_id, key, value) ==
    IF Has(mm.sessions, session_id)
    THEN Returns([mm EXCEPT !.sessions[session_id].context = (key :> value) @@ @], None)
    ELSE Returns(mm, None)

get_context(mm, session_id, key) ==
    IF Has(mm.sessions, session_id) THEN get(mm.sessions[session_id].context, key) ELSE None

\* python:  del d[key]
Del(d, key) == [k \in DOMAIN d \ {key} |-> d[k]]

\* clear_session that reports success and removes nothing
clear_session_kept(mm, session_id) ==
    IF Has(mm.sessions, session_id) THEN Returns(mm, TRUE) ELSE Returns(mm, FALSE)

clear_session(mm, session_id) ==
    IF Has(mm.sessions, session_id)
    THEN Returns([mm EXCEPT !.sessions = Del(@, session_id)], TRUE)
    ELSE Returns(mm, FALSE)

\* the stats dict, {} for an id the store does not hold
get_session_stats(mm, session_id) ==
    IF ~Has(mm.sessions, session_id) THEN EmptyDict
    ELSE LET session == mm.sessions[session_id]
         IN  [session_id |-> session_id, total_turns |-> Len(session.turns),
              context_keys |-> DOMAIN session.context]

(***************************************************************************)
(* main.py: ChatRequest and its validators                                 *)
(***************************************************************************)
MAX_MESSAGE_LENGTH == 10000

MAX_SESSION_ID_LENGTH == 100

\* html.escape of one character (quote=True)
EscapeChar(c) ==
    CASE c = "&" -> "&amp;"
      [] c = "<" -> "&lt;"
      [] c = ">" -> "&gt;"
      [] c = "\"" -> "&quot;"
      [] c = "'" -> "&#x27;"
      [] OTHER -> c

RECURSIVE html_escape(_)
html_escape(s) == IF s = "" THEN "" ELSE EscapeChar(CharAt(s, 1)) \o html_escape(SubSeq(s, 2, Len(s)))

validate_message(v) ==
    IF Len(v) > MAX_MESSAGE_LENGTH THEN Raise("ValueError") ELSE Value(html_escape(v))

validate_session_id(v) ==
    IF Truthy(v) /\ Len(v) > MAX_SESSION_ID_LENGTH THEN Raise("ValueError") ELSE Value(v)

\* the request object the framework builds from the body; a validator that
\* raises makes the framework reject the body
ChatRequest(message, session_id) ==
    LET m == validate_message(message)
        s == validate_session_id(session_id)
    IN  IF m.raised \/ s.raised THEN Raise("RequestValidationError")
        ELSE [raised |-> FALSE, message |-> m.value, session_id |-> s.value]

(***************************************************************************)
(* main.py: ConversationAgent                                              *)
(***************************************************************************)
\* update_contexts keeping the entry a key already holds
RECURSIVE update_contexts_first_wins(_, _, _)
update_contexts_first_wins(mm, session_id, pairs) ==
    IF pairs = <<>> THEN mm
    ELSE update_contexts_first_wins(
             IF Has(mm.sessions, session_id) /\ Has(mm.sessions[session_id].context, pairs[1][1])
             THEN mm
             ELSE update_context(mm, session_id, pairs[1][1], pairs[1][2]).mm,
             session_id, Tail(pairs))

\* update_context for each pair of a sequence, in order
RECURSIVE update_contexts(_, _, _)
update_contexts(mm, session_id, pairs) ==
    IF pairs = <<>> THEN mm
    ELSE update_contexts(update_context(mm, session_id, pairs[1][1], pairs[1][2]).mm,
                         session_id, Tail(pairs))

extract_location_context(mm, message, session_id) ==
    LET message_lower == lower(message)
        has(w) == Contains(message_lower, w)
        area == IF has("petaling jaya") \/ has("pj") THEN << <<"area", "petaling_jaya">> >>
                ELSE IF has("kuala lumpur") \/ has("kl") THEN << <<"area", "kuala_lumpur">> >>
                ELSE <<>>
        specific(a, l) == << <<"area", a>>, <<"specific_location", l>> >>
        place == IF has("ss 2") \/ has("ss2") THEN specific("petaling_jaya", "ss 2")
                 ELSE IF has("ss 15") \/ has("ss15") THEN specific("petaling_jaya", "ss 15")
                 ELSE IF has("damansara utama") THEN specific("petaling_jaya", "damansara utama")
                 ELSE IF has("klcc") THEN specific("kuala_lumpur", "klcc")
                 ELSE IF has("bukit bintang") THEN specific("kuala_lumpur", "bukit bintang")
                 ELSE <<>>
    IN  update_contexts(mm, session_id, area \o place)

\* what the call of the language model comes back with: a completion, or an
\* exception with its text
LLMOutcome(kind, text) == [kind |-> kind, text |-> text]

LLMOutcomes == {LLMOutcome("ok", " Our KLCC outlet opens at 10:00 AM. "), LLMOutcome("error", "Connection error.")}

LLM_APOLOGY(error) ==
    "I'm sorry, I'm having trouble processing your request right now. Please try again. (Error: "
    \o error \o ")"

\* ConversationAgent.process_message: the answer of the language model; the
\* prompt it is given is read from the store and changes nothing
agent_process_message(mm, message, session_id, llm) ==
    LET extracted == extract_location_context(mm, message, session_id)
    IN  IF llm.kind = "ok" THEN Returns(extracted, strip(llm.text))
        ELSE Returns(extracted, LLM_APOLOGY(llm.text))

\* the session_context the planner is given
planner_session_context(mm, session_id) ==
    [area |-> get_context(mm, session_id, "area"),
     specific_location |-> get_context(mm, session_id, "specific_location")]

\* the (key, value) pairs of a dict, in the order context_updates_of fills it
context_items(d) ==
    LET keys == <<"last_outlet_mentioned", "area", "specific_location">>
        pick(i) == IF Has(d, keys[i]) THEN << <<keys[i], d[keys[i]]>> >> ELSE <<>>
    IN  pick(1) \o pick(2) \o pick(3)

\* the outcome of a body run under try: the store it leaves, and either the
\* value it returns or the class of the exception it raises
Returned(mm, ret) == [raised |-> FALSE, mm |-> mm, ret |-> ret]

Raised(mm, exc) == [raised |-> TRUE, mm |-> mm, exc |-> exc]

\* the parameter an action's text is read from, "" when the text comes from
\* the language model
text_key(action_type, message_types) ==
    IF action_type = "ask_clarification" THEN "question"
    ELSE IF action_type \in message_types THEN "message"
    ELSE ""

\* the text of the language model's answer, with the planner's result
answered(answer, planner_result) ==
    Returned(answer.mm, [text |-> answer.ret, planner_result |-> planner_result])

\* the response text of the planned action, read from parameters[key]
response_text_of(updated, message, session_id, llm, planner_result, key) ==
    IF key = "" THEN answered(agent_process_message(updated, message, session_id, llm), planner_result)
    ELSE IF ~Has(planner_result.action.parameters, key) THEN Raised(updated, "KeyError")
    ELSE Returned(updated, [text |-> planner_result.action.parameters[key],
                            planner_result |-> planner_result])

\* the planner's context updates applied, then the response text
applied(mm, message, session_id, llm, message_types, planner_result) ==
    IF planner_result.raised THEN Raised(mm, planner_result.exc)
    ELSE response_text_of(
             update_contexts(mm, session_id, context_items(planner_result.context_updates)),
             message, session_id, llm, planner_result,
             text_key(planner_result.action.action_type, message_types))

\* the try body of both process_message_with_planner variants
planner_try(mm, message, session_id, session_context, env, llm, message_types) ==
    applied(mm, message, session_id, llm, message_types,
            process_message(message, session_context, env))

PLANNER_TYPES == {"provide_info", "search_outlets", "calculate", "finish"}

DETAILED_TYPES == PLANNER_TYPES \cup {"get_weather", "get_forecast"}

text_of(answer) == Returned(answer.mm, answer.ret)

\* except Exception: the language model answers
planner_caught(tried, message, session_id, llm) ==
    IF tried.raised THEN text_of(agent_process_message(tried.mm, message, session_id, llm))
    ELSE Returned(tried.mm, tried.ret.text)

\* POST /chat answers with this: the text alone
process_message_with_planner(mm, message, session_id, session_context, env, llm) ==
    planner_caught(planner_try(mm, message, session_id, session_context, env, llm, PLANNER_TYPES),
                   message, session_id, llm)

\* the tuple process_message_with_planner_detailed returns; confidence in tenths
DetailedResult(response_text, intent, action_type, reasoning, confidence, tools_used) ==
    [response_text |-> response_text, intent |-> intent, action_type |-> action_type,
     reasoning |-> reasoning, confidence |-> confidence, tools_used |-> tools_used]

detailed_of(mm, text, r) ==
    Returned(mm, DetailedResult(text, r.intent.intent, r.action.action_type, r.action.reasoning,
                                r.intent.confidence, r.action.required_tools))

FALLBACK_CONFIDENCE == 5

fallback_of(fallback_response) ==
    Returned(fallback_response.mm,
             DetailedResult(fallback_response.ret, "general_question", "provide_info",
                            "Fallback due to planner error", FALLBACK_CONFIDENCE, <<>>))

\* the try body alone: what it raises gets out
detailed_uncaught(tried) ==
    IF tried.raised THEN tried ELSE detailed_of(tried.mm, tried.ret.text, tried.ret.planner_result)

\* except Exception: the language model answers, under a fixed intent and action
detailed_caught(tried, message, session_id, llm) ==
    IF tried.raised THEN fallback_of(agent_process_message(tried.mm, message, session_id, llm))
    ELSE detailed_of(tried.mm, tried.ret.text, tried.ret.planner_result)

\* process_message_with_planner_detailed without its except clause
process_message_with_planner_detailed_uncaught(mm, message, session_id, session_context, env, llm) ==
    detailed_uncaught(planner_try(mm, message, session_id, session_context, env, llm, DETAILED_TYPES))

process_message_with_planner_detailed(mm, message, session_id, session_context, env, llm) ==
    detailed_caught(planner_try(mm, message, session_id, session_context, env, llm, DETAILED_TYPES),
                    message, session_id, llm)

get_fallback_response(message) ==
    LET message_lower == lower(message)
        any(ws) == \E w \in ws : Contains(message_lower, w)
    IN  IF any({"outlet", "shop", "store", "mall"})
        THEN "I can help you find outlet information. Could you specify which area you're interested in? For example, Kuala Lumpur or Petaling Jaya."
        ELSE IF any({"weather", "temperature", "rain", "sunny"})
        THEN "I can provide weather information. Could you specify which city you'd like the weather for?"
        ELSE IF any({"calculate", "math", "compute", "number"})
        THEN "I can help with calculations. Could you provide the specific calculation you need?"
        ELSE IF any({"hello", "hi", "hey"})
        THEN "Hello! I'm here to help you find outlets, get weather information, or perform calculations. What would you like to know?"
        ELSE "I'm here to help with outlet information, weather updates, and calculations. Could you please rephrase your question?"

(***************************************************************************)
(* outlets.py: OutletService                                               *)
(***************************************************************************)
\* python:  s.replace(" ", "_")
RECURSIVE replace_spaces(_)
replace_spaces(s) ==
    IF s = "" THEN ""
    ELSE (IF CharAt(s, 1) = " " THEN "_" ELSE CharAt(s, 1)) \o replace_spaces(SubSeq(s, 2, Len(s)))

\* the outlets listed under a key of the OUTLETS_DATA dict
outlets_of_key(area_key) ==
    SelectSeq(OUTLETS_DATA, LAMBDA outlet : replace_spaces(lower(outlet.area)) = area_key)

find_outlets_by_area(area) ==
    LET area_key == replace_spaces(lower(area))
    IN  IF area_key \in OUTLET_AREAS THEN outlets_of_key(area_key) ELSE <<>>

(***************************************************************************)
(* main.py: the endpoints.  A handler returns [mm, response]: the store it *)
(* leaves and the HTTP response, [status_code, body].                      *)
(***************************************************************************)
Response(status_code, body) == [status_code |-> status_code, body |-> body]

Responds(mm, response) == [mm |-> mm, response |-> response]

\* the response the framework makes of a raised HTTPException
HTTPException(status_code, detail) == Response(status_code, [detail |-> detail])

\* the response the framework makes of a body its validators reject
REQUEST_REJECTED == HTTPException(422, "Value error, Message too long")

\* try: <body>  except Exception as e: raise HTTPException(500, prefix + str(e))
\* around a body that returns a value or raises HTTPException(404, detail):
\* HTTPException is an Exception, so the except clause catches it
try_except_exception(body, prefix) ==
    IF body.raised
    THEN HTTPException(500, prefix \o str(body.status_code) \o ": " \o body.detail)
    ELSE Response(200, body.value)

RaiseHTTP(status_code, detail) == [raised |-> TRUE, status_code |-> status_code, detail |-> detail]

IsEmpty(d) == DOMAIN d = {}

api_get_conversation_history(mm, session_id) ==
    Responds(mm, Response(200, get_conversation_history(mm, session_id)))

api_get_session_stats(mm, session_id) ==
    LET stats == get_session_stats(mm, session_id)
        body == IF IsEmpty(stats) THEN RaiseHTTP(404, "Session not found") ELSE Value(stats)
    IN  Responds(mm, try_except_exception(body, "Error retrieving session stats: "))

api_clear_session(mm, session_id) ==
    LET success == clear_session(mm, session_id)
        body == IF ~success.ret THEN RaiseHTTP(404, "Session not found")
                ELSE Value([message |-> "Session cleared successfully"])
    IN  Responds(success.mm, try_except_exception(body, "Error clearing session: "))

api_get_outlets_by_area(mm, area) ==
    LET outlets == find_outlets_by_area(area)
        body == IF outlets = <<>> THEN RaiseHTTP(404, "No outlets found in " \o area) ELSE Value(outlets)
    IN  Responds(mm, try_except_exception(body, "Error retrieving outlets: "))

ChatResponse(response, session_id, turn_number, context_updated) ==
    [response |-> response, session_id |-> session_id, turn_number |-> turn_number,
     context_updated |-> context_updated]

\* confidence in tenths
AgenticChatResponse(response, session_id, turn_number, context_updated, intent, action_type, reasoning, confidence, tools_used) ==
    [response |-> response, session_id |-> session_id, turn_number |-> turn_number,
     context_updated |-> context_updated, intent |-> intent, action_type |-> action_type,
     reasoning |-> reasoning, confidence |-> confidence, tools_used |-> tools_used]

\* POST /chat and POST /chat/agentic run in two parts: up to the point where
\* the planner is given the session context it has read, and from there on.
\* The second part runs at once unless a tool awaits a collaborator.

\* POST /chat, first part: Returns(mm, session_id)
chat_enter(mm, request) == get_or_create_session(mm, request.session_id)

\* the turn stored: the response with the length of the history as turn_number
chat_stored(mm, response, session_id) ==
    Responds(mm, Response(200, ChatResponse(response.ret, session_id,
                                            Len(get_conversation_history(mm, session_id)), TRUE)))

chat_answered(response, request, session_id) ==
    IF response.raised
    THEN Responds(response.mm, HTTPException(500, "Error processing message: " \o response.exc))
    ELSE chat_stored(add_turn(response.mm, session_id, request.message, response.ret).mm,
                     response, session_id)

\* POST /chat, second part
chat_leave(mm, request, session_id, session_context, env, llm) ==
    chat_answered(process_message_with_planner(mm, request.message, session_id, session_context, env, llm),
                  request, session_id)

EMPTY_MESSAGE_RESPONSE ==
    "I'm here to help! What would you like to know about outlets, weather, or calculations?"

FULL_CONFIDENCE == 10

\* POST /chat/agentic, first part: an empty message is answered at once
agentic_chat_enter(mm, request) ==
    LET made == get_or_create_session(mm, request.session_id)
    IN  IF request.message = "" \/ Len(strip(request.message)) = 0
        THEN [done |-> TRUE, mm |-> made.mm, session_id |-> made.ret,
              response |-> Response(200, AgenticChatResponse(
                  EMPTY_MESSAGE_RESPONSE, made.ret, 1, FALSE, "unclear", "ask_clarification",
                  "Empty or whitespace-only message received", FULL_CONFIDENCE, <<>>))]
        ELSE [done |-> FALSE, mm |-> made.mm, session_id |-> made.ret]

\* the response for an exception process_message_with_planner_detailed let out
agentic_error(session_id, response, intent, reasoning, confidence) ==
    Response(200, AgenticChatResponse(response, session_id, 1, FALSE, intent, "provide_info",
                                      reasoning, confidence, <<>>))

\* the turn stored: the response with the length of the history as turn_number
agentic_stored(mm, r, session_id) ==
    Responds(mm, Response(200, AgenticChatResponse(
        r.response_text, session_id, Len(get_conversation_history(mm, session_id)), TRUE,
        r.intent, r.action_type, r.reasoning, r.confidence, r.tools_used)))

agentic_answered(response_data, request, session_id, env) ==
    IF ~response_data.raised
    THEN agentic_stored(add_turn(response_data.mm, session_id, request.message,
                                 response_data.ret.response_text).mm,
                        response_data.ret, session_id)
    ELSE IF response_data.exc = "TimeoutException"
    THEN Responds(response_data.mm, agentic_error(
             session_id, "The service is taking longer than expected. Please try again in a moment.",
             "error", "Network timeout occurred", FULL_CONFIDENCE))
    ELSE IF response_data.exc = "HTTPStatusError"
    THEN Responds(response_data.mm, agentic_error(
             session_id,
             IF env.outcome.code >= 500
             THEN "One of our services is currently unavailable. Please try again later."
             ELSE "I encountered an issue processing your request. Could you please rephrase?",
             "error", "HTTP error " \o str(env.outcome.code), FULL_CONFIDENCE))
    ELSE Responds(response_data.mm, agentic_error(
             session_id, get_fallback_response(request.message), "general_question",
             "Fallback due to processing error", FALLBACK_CONFIDENCE))

\* POST /chat/agentic, second part
agentic_chat_leave(mm, request, session_id, session_context, env, llm) ==
    agentic_answered(process_message_with_planner_detailed(mm, request.message, session_id,
                                                           session_context, env, llm),
                     request, session_id, env)

\* TRUE when the tool awaits a collaborator: a remote tool, and for a weather
\* tool the agent is there
awaits_tool(tool, env) ==
    /\ tool \in REMOTE_TOOLS
    /\ tool \in {"get_current_weather", "get_weather_forecast"} => env.weather_agent

awaits_planned(intent, session_context, env) ==
    /\ env.fault \notin {"classify", "plan"}
    /\ ~intent.raised
    /\ awaits_tool(tool_of(plan_action(intent, session_context)), env)

\* TRUE when the second part waits for a collaborator: no step before the
\* tool raises, and the planned tool awaits one
awaits_collaborator(message, session_context, env) ==
    awaits_planned(classify_intent(message, session_context), session_context, env)

(***************************************************************************)
(* The messages the classifier and the planner are applied to: up to       *)
(* MaxWords words of the vocabulary, separated by one space                *)
(***************************************************************************)
MaxWords == 2

Vocabulary == {
    "hi", "thanks", "5 + 3", "6 / 0", "Calculate", "computation", "times",
    "weather", "forecast", "5-day", "penang", "mug", "store", "find", "near",
    "outlets", "show", "hours", "what's", "address", "phone",
    "petaling jaya", "kl", "SS 2"}

RECURSIVE JoinWords(_)
JoinWords(ws) == IF Len(ws) = 1 THEN ws[1] ELSE ws[1] \o " " \o JoinWords(Tail(ws))

RECURSIVE Repeat(_, _)
\* python:  s * n
Repeat(s, n) ==
    IF n = 0 THEN ""
    ELSE IF n % 2 = 1 THEN s \o Repeat(s \o s, n \div 2)
    ELSE Repeat(s \o s, n \div 2)

\* a sum whose first operand has one digit more than int() converts
LONG_OPERAND_MESSAGE == Repeat("9", MAX_STR_DIGITS + 1) \o " + 1"

SS2_HOURS_MESSAGE == "SS 2, what's the opening time?"

\* binary expressions, each with its operands and the text of its result
Expression(text, a, op, b, r) == [text |-> text, a |-> a, op |-> op, b |-> b, r |-> r]

Expressions == {
    Expression("5 + 3", 5, "+", 3, "8"), Expression("12 - 7", 12, "-", 7, "5"),
    Expression("3 - 5", 3, "-", 5, "-2"), Expression("6*7", 6, "*", 7, "42"),
    Expression("007 + 0", 7, "+", 0, "7")}

Messages ==
    {"", "  ", LONG_OPERAND_MESSAGE, SS2_HOURS_MESSAGE} \cup {e.text : e \in Expressions} \cup {JoinWords(ws) : ws \in UNION {[1..n -> Vocabulary] : n \in 1..MaxWords}}

\* the contexts classify_intent is applied to: a dict without an area, a dict
\* with one, and the declared default None
ClassifyContexts == {EmptyDict, "area" :> "kuala_lumpur", NoContext}

\* the contexts plan_action is applied to
PlanContexts ==
    [area : {None, "kuala_lumpur"}, specific_location : {None, "klcc"},
     last_outlet_mentioned : {None, "ss 2"}]

(***************************************************************************)
(* State                                                                   *)
(***************************************************************************)
VARIABLES
    message,          \* the message under classification
    session_context,  \* the session_context classify_intent is given
    intent,           \* what classify_intent returned
    plan_context,     \* the session_context plan_action is given
    action,           \* what plan_action returned
    pc,               \* "classify", "plan", "tools", "context", "raised", "done"; "idle" when unused
    call,             \* the arguments of the one call a specification of a function makes
    reply,            \* what the last completed operation returned
    memory_manager,   \* memory.py: the global ConversationMemoryManager
    inflight,         \* the requests waiting for a collaborator, by request number
    requests,         \* the number of chat requests received
    sent              \* by session id, the number of POST /chat messages answered;
                      \* in SpecStep the tools invoked for the message, in order

planVars == <<message, session_context, intent, plan_context, action, pc>>

storeVars == <<memory_manager, inflight, requests, sent>>

vars == <<message, session_context, intent, plan_context, action, pc,
          call, reply, memory_manager, inflight, requests, sent>>

\* the value of a variable that holds nothing yet
Nothing == [nothing |-> TRUE]

PlanIdle ==
    /\ message = ""
    /\ session_context = EmptyDict
    /\ intent = Nothing
    /\ plan_context = Nothing
    /\ action = Nothing
    /\ pc = "idle"

StoreIdle ==
    /\ memory_manager = ConversationMemoryManager
    /\ inflight = EmptyDict
    /\ requests = 0
    /\ sent = EmptyDict

(***************************************************************************)
(* SpecPlan: classify_intent and plan_action applied to every message and  *)
(* context of the bounded sets                                             *)
(***************************************************************************)
InitPlan ==
    /\ message \in Messages
    /\ session_context \in ClassifyContexts
    /\ intent = Nothing
    /\ plan_context = Nothing
    /\ action = Nothing
    /\ pc = "classify"
    /\ call = Nothing
    /\ reply = Nothing
    /\ StoreIdle

Classify ==
    /\ pc = "classify"
    /\ intent' = classify_intent(message, session_context)
    /\ pc' = IF intent'.raised THEN "raised" ELSE "plan"
    /\ UNCHANGED <<message, session_context, plan_context, action, call, reply>>
    /\ UNCHANGED storeVars

Plan ==
    /\ pc = "plan"
    /\ \E ctx \in PlanContexts :
        /\ plan_context' = ctx
        /\ action' = plan_action(intent, ctx)
    /\ pc' = "done"
    /\ UNCHANGED <<message, session_context, intent, call, reply>>
    /\ UNCHANGED storeVars

NextPlan == Classify \/ Plan

SpecPlan == InitPlan /\ [][NextPlan]_vars

(***************************************************************************)
(* SpecTool: each weather tool applied once to every call of the bounded   *)
(* sets, with every outcome of the provider's HTTP call                    *)
(***************************************************************************)
ToolLocations == {None, "penang"}

ForecastDays == {0, 3, 5, 11}

ToolCalls ==
    [tool : {"get_current_weather"}, weather_agent : BOOLEAN, location : ToolLocations,
     days : {3}, outcome : Outcomes]
    \cup [tool : {"get_weather_forecast"}, weather_agent : BOOLEAN, location : ToolLocations,
          days : ForecastDays, outcome : Outcomes]

InitTool ==
    /\ PlanIdle
    /\ StoreIdle
    /\ call \in ToolCalls
    /\ reply = Nothing

GetCurrentWeather ==
    /\ reply = Nothing
    /\ call.tool = "get_current_weather"
    /\ reply' = Value(get_current_weather(call.weather_agent, call.location, call.outcome))
    /\ UNCHANGED <<planVars, storeVars, call>>

GetWeatherForecast ==
    /\ reply = Nothing
    /\ call.tool = "get_weather_forecast"
    /\ reply' = Value(get_weather_forecast(call.weather_agent, call.days, call.location, call.outcome))
    /\ UNCHANGED <<planVars, storeVars, call>>

NextTool == GetCurrentWeather \/ GetWeatherForecast

SpecTool == InitTool /\ [][NextTool]_vars

(***************************************************************************)
(* SpecStore: the operations of the memory manager, in any order.  Each    *)
(* runs to its end without awaiting, so concurrent requests interleave     *)
(* whole operations.                                                       *)
(***************************************************************************)
MaxUuids == 2

\* the session ids a caller can name: None, an id the store never issued,
\* and every id it issued (held or cleared)
ClientIds(mm) == {None, "stranger"} \cup {uuid4(n) : n \in 0..(mm.uuids - 1)}

\* the turns and context entries the store is given
StoreTurns == {<<"hi", GREETING_MESSAGE>>}

StoreContext == {<<"area", "kuala_lumpur">>}

\* the operation would not issue an id, or an id is left to issue
CanHold(mm, session_id) == (Truthy(session_id) /\ Has(mm.sessions, session_id)) \/ mm.uuids < MaxUuids

InitStore ==
    /\ PlanIdle
    /\ StoreIdle
    /\ call = Nothing
    /\ reply = Nothing

CreateSession ==
    /\ CanHold(memory_manager, None)
    /\ memory_manager' = create_session(memory_manager).mm
    /\ UNCHANGED <<planVars, call, reply, inflight, requests, sent>>

GetOrCreateSession ==
    /\ \E session_id \in ClientIds(memory_manager) :
        /\ CanHold(memory_manager, session_id)
        /\ memory_manager' = get_or_create_session(memory_manager, session_id).mm
    /\ UNCHANGED <<planVars, call, reply, inflight, requests, sent>>

AddTurn ==
    /\ \E session_id \in ClientIds(memory_manager) \ {None}, turn \in StoreTurns :
        /\ CanHold(memory_manager, session_id)
        /\ memory_manager' = add_turn(memory_manager, session_id, turn[1], turn[2]).mm
    /\ UNCHANGED <<planVars, call, reply, inflight, requests, sent>>

UpdateContext ==
    /\ \E session_id \in ClientIds(memory_manager) \ {None}, entry \in StoreContext :
        memory_manager' = update_context(memory_manager, session_id, entry[1], entry[2]).mm
    /\ UNCHANGED <<planVars, call, reply, inflight, requests, sent>>

ClearSession ==
    /\ \E session_id \in ClientIds(memory_manager) \ {None} :
        memory_manager' = clear_session(memory_manager, session_id).mm
    /\ UNCHANGED <<planVars, call, reply, inflight, requests, sent>>

NextStore == CreateSession \/ GetOrCreateSession \/ AddTurn \/ UpdateContext \/ ClearSession

SpecStore == InitStore /\ [][NextStore]_vars

(***************************************************************************)
(* SpecAgent: process_message_with_planner_detailed applied once to every  *)
(* message of a bounded set, for a session with or without an area, with   *)
(* every step of the planner raising or not, every outcome of the tool's   *)
(* HTTP call and of the language model                                     *)
(***************************************************************************)
AgentMessages == {
    "hi", "5 + 3", "asdf", "weather in penang", "show me a mug",
    "Do you have any outlets in Petaling Jaya?", "What are the opening hours?"}

AgentContexts == {<<>>, << <<"area", "kuala_lumpur">> >>}

AgentCalls ==
    [message : AgentMessages, session_id : {uuid4(0)},
     env : {Env(TRUE, outcome, fault) : outcome \in Outcomes, fault \in Faults},
     llm : LLMOutcomes]

InitAgent ==
    /\ PlanIdle
    /\ \E entries \in AgentContexts :
        memory_manager = update_contexts(create_session(ConversationMemoryManager).mm, uuid4(0), entries)
    /\ inflight = EmptyDict
    /\ requests = 0
    /\ sent = EmptyDict
    /\ call \in AgentCalls
    /\ reply = Nothing

DetailedResulted(given, r) ==
    /\ memory_manager' = r.mm
    /\ reply' = [raised |-> r.raised, given |-> given, ret |-> IF r.raised THEN r.exc ELSE r.ret]

DetailedReturned(given) ==
    DetailedResulted(given, process_message_with_planner_detailed(
                                memory_manager, call.message, call.session_id, given, call.env, call.llm))

ProcessMessageWithPlannerDetailed ==
    /\ reply = Nothing
    /\ DetailedReturned(planner_session_context(memory_manager, call.session_id))
    /\ UNCHANGED <<planVars, call, inflight, requests, sent>>

NextAgent == ProcessMessageWithPlannerDetailed

SpecAgent == InitAgent /\ [][NextAgent]_vars

(***************************************************************************)
(* SpecApi: POST /chat with a message no tool awaits for, and the session  *)
(* and outlet endpoints, in any order.  Each handler runs to its end       *)
(* without awaiting.                                                       *)
(***************************************************************************)
MaxTurns == 11

ApiMessages == {"hi"}

ApiAreas == {"Petaling Jaya", "kuala_lumpur", "non_existent"}

\* the collaborators answer, nothing raises
Healthy == Env(TRUE, OkOutcome, "none")

\* python:  d.get(key, 0)
Count(d, key) == IF Has(d, key) THEN d[key] ELSE 0

Answered(endpoint, request, response) ==
    [endpoint |-> endpoint, request |-> request, response |-> response]

InitApi ==
    /\ PlanIdle
    /\ StoreIdle
    /\ call = Nothing
    /\ reply = Nothing

ChatAnswered(m, session_id, answered_id, left) ==
    /\ memory_manager' = left.mm
    /\ sent' = (answered_id :> (Count(sent, answered_id) + 1)) @@ sent
    /\ reply' = Answered("chat", [message |-> m, session_id |-> session_id], left.response)

ChatPlanned(m, session_id, request, entered, given, llm) ==
    /\ Count(sent, entered.ret) < MaxTurns
    /\ ~awaits_collaborator(request.message, given, Healthy)
    /\ ChatAnswered(m, session_id, entered.ret,
                    chat_leave(entered.mm, request, entered.ret, given, Healthy, llm))

ChatEntered(m, session_id, request, entered, llm) ==
    ChatPlanned(m, session_id, request, entered, planner_session_context(entered.mm, entered.ret), llm)

ChatReceived(m, session_id, request, llm) ==
    /\ ~request.raised
    /\ CanHold(memory_manager, session_id)
    /\ ChatEntered(m, session_id, request, chat_enter(memory_manager, request), llm)

PostChat ==
    /\ \E m \in ApiMessages, session_id \in ClientIds(memory_manager), llm \in LLMOutcomes :
        ChatReceived(m, session_id, ChatRequest(m, session_id), llm)
    /\ UNCHANGED <<planVars, call, inflight, requests>>

GetConversationHistory ==
    /\ \E session_id \in ClientIds(memory_manager) \ {None} :
        LET r == api_get_conversation_history(memory_manager, session_id)
        IN  /\ memory_manager' = r.mm
            /\ reply' = Answered("get_conversation_history", [session_id |-> session_id], r.response)
    /\ UNCHANGED <<planVars, call, inflight, requests, sent>>

GetSessionStats ==
    /\ \E session_id \in ClientIds(memory_manager) \ {None} :
        LET r == api_get_session_stats(memory_manager, session_id)
        IN  /\ memory_manager' = r.mm
            /\ reply' = Answered("get_session_stats", [session_id |-> session_id], r.response)
    /\ UNCHANGED <<planVars, call, inflight, requests, sent>>

DeleteSession ==
    /\ \E session_id \in ClientIds(memory_manager) \ {None} :
        LET r == api_clear_session(memory_manager, session_id)
        IN  /\ memory_manager' = r.mm
            /\ reply' = Answered("clear_session", [session_id |-> session_id], r.response)
    /\ UNCHANGED <<planVars, call, inflight, requests, sent>>

GetOutletsByArea ==
    /\ \E area \in ApiAreas :
        LET r == api_get_outlets_by_area(memory_manager, area)
        IN  /\ memory_manager' = r.mm
            /\ reply' = Answered("get_outlets_by_area", [area |-> area], r.response)
    /\ UNCHANGED <<planVars, call, inflight, requests, sent>>

NextApi == PostChat \/ GetConversationHistory \/ GetSessionStats \/ DeleteSession \/ GetOutletsByArea

SpecApi == InitApi /\ [][NextApi]_vars

(***************************************************************************)
(* SpecChat: POST /chat/agentic from concurrent clients.  A request runs   *)
(* to its end in one step, unless its tool awaits a collaborator: then it  *)
(* waits in inflight with the session context it has read, and resumes     *)
(* with the collaborator's outcome.                                        *)
(***************************************************************************)
MaxRequests == 2

\* s \o s, n times over
RECURSIVE Doubled(_, _)
Doubled(s, n) == IF n = 0 THEN s ELSE Doubled(s \o s, n - 1)

\* a message of 16384 characters
OVERSIZE_MESSAGE == Doubled("a", 14)

AREA_MESSAGE == "Do you have any outlets in Petaling Jaya?"

HOURS_MESSAGE == "What are the opening hours?"

ChatMessages == {"", "   ", OVERSIZE_MESSAGE, AREA_MESSAGE, HOURS_MESSAGE, "weather in penang"}

AgenticAnswered(m, session_id, r) ==
    /\ memory_manager' = r.mm
    /\ reply' = Answered("agentic_chat", [message |-> m, session_id |-> session_id], r.response)
    /\ UNCHANGED inflight

\* the request waits for the collaborator of its tool
AgenticSuspended(m, session_id, request, entered, given) ==
    /\ memory_manager' = entered.mm
    /\ inflight' = ((requests + 1) :> [message |-> m, session_id |-> session_id, request |-> request,
                                        entered |-> entered.session_id, given |-> given]) @@ inflight
    /\ UNCHANGED reply

AgenticPlanned(m, session_id, request, entered, given, llm) ==
    IF awaits_collaborator(request.message, given, Healthy)
    THEN AgenticSuspended(m, session_id, request, entered, given)
    ELSE AgenticAnswered(m, session_id,
                         agentic_chat_leave(entered.mm, request, entered.session_id, given, Healthy, llm))

AgenticEntered(m, session_id, request, entered, llm) ==
    IF entered.done THEN AgenticAnswered(m, session_id, entered)
    ELSE AgenticPlanned(m, session_id, request, entered,
                        planner_session_context(entered.mm, entered.session_id), llm)

AgenticReceived(m, session_id, request, llm) ==
    IF request.raised
    THEN AgenticAnswered(m, session_id, Responds(memory_manager, REQUEST_REJECTED))
    ELSE /\ CanHold(memory_manager, session_id)
         /\ AgenticEntered(m, session_id, request, agentic_chat_enter(memory_manager, request), llm)

AgenticChat ==
    /\ requests < MaxRequests
    /\ requests' = requests + 1
    /\ \E m \in ChatMessages, session_id \in ClientIds(memory_manager), llm \in LLMOutcomes :
        AgenticReceived(m, session_id, ChatRequest(m, session_id), llm)
    /\ UNCHANGED <<planVars, call, sent>>

AgenticResumed(n, r) ==
    /\ memory_manager' = r.mm
    /\ reply' = Answered("agentic_chat",
                         [message |-> inflight[n].message, session_id |-> inflight[n].session_id],
                         r.response)
    /\ inflight' = Del(inflight, n)

AgenticChatResume ==
    /\ \E n \in DOMAIN inflight, outcome \in Outcomes, llm \in LLMOutcomes :
        AgenticResumed(n, agentic_chat_leave(memory_manager, inflight[n].request, inflight[n].entered,
                                             inflight[n].given, Env(TRUE, outcome, "none"), llm))
    /\ UNCHANGED <<planVars, call, requests, sent>>

InitChat ==
    /\ PlanIdle
    /\ StoreIdle
    /\ call = Nothing
    /\ reply = Nothing

NextChat == AgenticChat \/ AgenticChatResume

SpecChat == InitChat /\ [][NextChat]_vars

(***************************************************************************)
(* SpecSession: the life of a session.  Clients post to /chat, delete      *)
(* sessions, and the store is given turns and context entries directly.    *)
(* call records the kind of the last operation and the session the last    *)
(* successful delete removed.                                              *)
(***************************************************************************)
SS2_MESSAGE == "I need info about SS 2 outlet"

KL_MESSAGE == "Do you have stores in KL?"

SessionMessages == {SS2_MESSAGE, KL_MESSAGE, HOURS_MESSAGE}

SessionContext == {<<"area", "petaling_jaya">>, <<"last_outlet_mentioned", "ss 2">>}

\* the ids the clients of this specification name: None and every id issued
SessionIds(mm) == ClientIds(mm) \ {"stranger"}

\* none of the three messages is answered by the language model
SessionLLM == LLMOutcome("error", "Connection error.")

Operation(op, cleared) == [op |-> op, cleared |-> cleared]

\* the last session a delete removed, Nothing when there is none
Cleared == IF call = Nothing THEN Nothing ELSE call.cleared

InitSession ==
    /\ PlanIdle
    /\ StoreIdle
    /\ call = Nothing
    /\ reply = Nothing

SessionChat ==
    /\ requests < MaxRequests
    /\ requests' = requests + 1
    /\ \E m \in SessionMessages, session_id \in SessionIds(memory_manager) :
        ChatReceived(m, session_id, ChatRequest(m, session_id), SessionLLM)
    /\ call' = Operation("chat", Cleared)
    /\ UNCHANGED <<planVars, inflight>>

SessionDeleted(session_id, r) ==
    /\ memory_manager' = r.mm
    /\ reply' = Answered("clear_session", [session_id |-> session_id], r.response)
    /\ call' = Operation("clear_session",
                         IF r.response.status_code = 200
                         THEN [session_id |-> session_id, session |-> memory_manager.sessions[session_id]]
                         ELSE Cleared)

SessionDelete ==
    /\ \E session_id \in SessionIds(memory_manager) \ {None} :
        SessionDeleted(session_id, api_clear_session(memory_manager, session_id))
    /\ UNCHANGED <<planVars, inflight, requests, sent>>

SessionAddTurn ==
    /\ requests < MaxRequests
    /\ requests' = requests + 1
    /\ \E session_id \in SessionIds(memory_manager) \ {None}, turn \in StoreTurns :
        /\ CanHold(memory_manager, session_id)
        /\ memory_manager' = add_turn(memory_manager, session_id, turn[1], turn[2]).mm
    /\ call' = Operation("add_turn", Cleared)
    /\ UNCHANGED <<planVars, reply, inflight, sent>>

SessionUpdateContext ==
    /\ requests < MaxRequests
    /\ requests' = requests + 1
    /\ \E session_id \in SessionIds(memory_manager) \ {None}, entry \in SessionContext :
        memory_manager' = update_context(memory_manager, session_id, entry[1], entry[2]).mm
    /\ call' = Operation("update_context", Cleared)
    /\ UNCHANGED <<planVars, reply, inflight, sent>>

NextSession == SessionChat \/ SessionDelete \/ SessionAddTurn \/ SessionUpdateContext

SpecSession == InitSession /\ [][NextSession]_vars

(***************************************************************************)
(* SpecRace: requests to /chat/agentic on one session that overlap.  The   *)
(* store holds one session without turns; each request names a location,   *)
(* waits for the weather agent with the context it read when it entered,   *)
(* and writes its context updates when it resumes.  call records that two  *)
(* requests waited on one session with the same context.                   *)
(***************************************************************************)
KLCC_WEATHER == "weather in klcc"

PJ_WEATHER == "weather in pj"

SS2_WEATHER == "weather at ss 2"

RaceMessages == {KLCC_WEATHER, PJ_WEATHER, SS2_WEATHER}

\* two requests wait on the same session with the same context
Overlapping(waiting) ==
    \E n1 \in DOMAIN waiting, n2 \in DOMAIN waiting :
        /\ n1 # n2
        /\ waiting[n1].entered = waiting[n2].entered
        /\ waiting[n1].given = waiting[n2].given

InitRace ==
    /\ PlanIdle
    /\ memory_manager = create_session(ConversationMemoryManager).mm
    /\ inflight = EmptyDict
    /\ requests = 0
    /\ sent = EmptyDict
    /\ call = Nothing
    /\ reply = Nothing

\* the weather agent answers, or does not answer in time
RaceOutcomes == {OkOutcome, Outcome("timeout", 0, "")}

RaceChat ==
    /\ requests < MaxRequests
    /\ requests' = requests + 1
    /\ \E m \in RaceMessages, session_id \in SessionIds(memory_manager) \ {None} :
        AgenticReceived(m, session_id, ChatRequest(m, session_id), SessionLLM)
    /\ call' = IF Overlapping(inflight') THEN [overlapped |-> TRUE] ELSE call
    /\ UNCHANGED <<planVars, sent>>

RaceResume ==
    /\ \E n \in DOMAIN inflight, outcome \in RaceOutcomes :
        AgenticResumed(n, agentic_chat_leave(memory_manager, inflight[n].request, inflight[n].entered,
                                             inflight[n].given, Env(TRUE, outcome, "none"), SessionLLM))
    /\ UNCHANGED <<planVars, call, requests, sent>>

NextRace == RaceChat \/ RaceResume

SpecRace == InitRace /\ [][NextRace]_vars

(***************************************************************************)
(* SpecHistory: add_turn called again and again on one session of the      *)
(* store.  call records the session and every (user_message, bot_response) *)
(* pair the session was given, in the order of the calls; the n-th         *)
(* response is the text of n, so that no two turns are alike.              *)
(***************************************************************************)
HistoryMessages == {"hi", HOURS_MESSAGE}

InitHistory ==
    /\ PlanIdle
    /\ memory_manager = create_session(ConversationMemoryManager).mm
    /\ inflight = EmptyDict
    /\ requests = 0
    /\ sent = EmptyDict
    /\ call = [session_id |-> create_session(ConversationMemoryManager).ret, added |-> <<>>]
    /\ reply = Nothing

HistoryAddTurn ==
    /\ Len(call.added) <= MaxTurns
    /\ \E user_message \in HistoryMessages :
        /\ memory_manager' = add_turn(memory_manager, call.session_id, user_message,
                                      str(Len(call.added) + 1)).mm
        /\ call' = [call EXCEPT !.added = Append(@, <<user_message, str(Len(call.added) + 1)>>)]
    /\ UNCHANGED <<planVars, reply, inflight, requests, sent>>

NextHistory == HistoryAddTurn

SpecHistory == InitHistory /\ [][NextHistory]_vars

(***************************************************************************)
(* SpecStep: AgenticPlanner.process_message step by step for one message:  *)
(* classify, plan, Step 3 (the tool of the action, if any), Step 4 (the    *)
(* context updates) and the return.  call is the environment of the run,   *)
(* sent the tools invoked so far, reply the PlannerResult returned.        *)
(***************************************************************************)
StepMessages == {
    "hi", "5 + 3", "5 / 0", "asdf", "weather in penang", "forecast for penang", "show me a mug",
    AREA_MESSAGE, HOURS_MESSAGE}

StepContexts == {[area |-> None, specific_location |-> None],
                 [area |-> "kuala_lumpur", specific_location |-> None]}

StepEnvs == {Env(weather_agent, outcome, "none") : weather_agent \in BOOLEAN, outcome \in Outcomes}

InitStep ==
    /\ message \in StepMessages
    /\ session_context \in StepContexts
    /\ intent = Nothing
    /\ plan_context = Nothing
    /\ action = Nothing
    /\ pc = "classify"
    /\ call \in StepEnvs
    /\ reply = Nothing
    /\ memory_manager = ConversationMemoryManager
    /\ inflight = EmptyDict
    /\ requests = 0
    /\ sent = <<>>

StepPlan ==
    /\ pc = "plan"
    /\ plan_context' = session_context
    /\ action' = plan_action(intent, session_context)
    /\ pc' = "tools"
    /\ UNCHANGED <<message, session_context, intent, call, reply>>
    /\ UNCHANGED storeVars

\* the branch of Step 3 the action takes
ExecuteTool ==
    /\ pc = "tools"
    /\ tool_of(action) # ""
    /\ sent' = Append(sent, tool_of(action))
    /\ action' = [action EXCEPT !.parameters = ("message" :> execute_tool(action, call)) @@ @]
    /\ pc' = after_tool(tool_of(action), call)
    /\ UNCHANGED <<message, session_context, intent, plan_context, call, reply>>
    /\ UNCHANGED <<memory_manager, inflight, requests>>

\* no branch of Step 3 is taken
NoTool ==
    /\ pc = "tools"
    /\ tool_of(action) = ""
    /\ pc' = "context"
    /\ UNCHANGED <<message, session_context, intent, plan_context, action, call, reply>>
    /\ UNCHANGED storeVars

\* Step 4 and the return
ReturnResult ==
    /\ pc = "context"
    /\ reply' = PlannerResult(intent, action, context_updates_of(intent), sent)
    /\ pc' = "done"
    /\ UNCHANGED <<message, session_context, intent, plan_context, action, call>>
    /\ UNCHANGED storeVars

NextStep == Classify \/ StepPlan \/ ExecuteTool \/ NoTool \/ ReturnResult

SpecStep == InitStep /\ [][NextStep]_vars

(***************************************************************************)
(* SpecOutlets: AgenticPlanner.process_message, step by step as in         *)
(* SpecStep, for the messages that ask for outlets at each place the       *)
(* classifier's location patterns can extract                              *)
(***************************************************************************)
\* the places of location_patterns, as a message may write them
ExtractablePlaces == {
    "Petaling Jaya", "PJ", "Kuala Lumpur", "KL", "SS 2", "SS2", "SS 15", "SS15",
    "Damansara Utama", "KLCC", "Bukit Bintang"}

OutletMessages ==
    {"outlets"}
    \cup {"Do you have stores in " \o place \o "?" : place \in ExtractablePlaces}
    \cup {"Is there an outlet in " \o place \o "?" : place \in ExtractablePlaces}

InitOutlets ==
    /\ message \in OutletMessages
    /\ session_context \in StepContexts
    /\ intent = Nothing
    /\ plan_context = Nothing
    /\ action = Nothing
    /\ pc = "classify"
    /\ call = Healthy
    /\ reply = Nothing
    /\ memory_manager = ConversationMemoryManager
    /\ inflight = EmptyDict
    /\ requests = 0
    /\ sent = <<>>

SpecOutlets == InitOutlets /\ [][NextStep]_vars

(***************************************************************************)
(* SpecCalc: execute_calculation applied once to every call of the bounded *)
(* sets: operands that are small integers or None, the four operators and  *)
(* texts that are none of them                                             *)
(***************************************************************************)
CalcOperands == [type : {"int"}, value : {0, 2, 5, 7}] \cup {[type |-> "NoneType", value |-> 0]}

CalcOperators == Operators \cup {"%", "^", ""}

CalcCalls == [operand1 : CalcOperands, operator : CalcOperators, operand2 : CalcOperands]

InitCalc ==
    /\ PlanIdle
    /\ StoreIdle
    /\ call \in CalcCalls
    /\ reply = Nothing

ExecuteCalculation ==
    /\ reply = Nothing
    /\ reply' = calculation_caught(calculation_try(call.operand1.type, call.operand1.value, call.operator,
                                                    call.operand2.type, call.operand2.value))
    /\ UNCHANGED <<planVars, storeVars, call>>

NextCalc == ExecuteCalculation

SpecCalc == InitCalc /\ [][NextCalc]_vars

(***************************************************************************)
(* SpecCascade: classify_intent applied to messages that put words of      *)
(* different categories side by side: up to MaxWords of the words below,   *)
(* one or two for each category of the cascade                             *)
(***************************************************************************)
CategoryWords == {
    "hello", "bye", "plus", "forecast for", "temperature", "mug", "nearby",
    "mall", "open", "address", "phone", "computation", "math", "asdf"}

CascadeMessages ==
    {"", "  "} \cup {JoinWords(ws) : ws \in UNION {[1..n -> CategoryWords] : n \in 1..MaxWords}}

InitCascade ==
    /\ message \in CascadeMessages
    /\ session_context \in ClassifyContexts
    /\ intent = Nothing
    /\ plan_context = Nothing
    /\ action = Nothing
    /\ pc = "classify"
    /\ call = Nothing
    /\ reply = Nothing
    /\ StoreIdle

NextCascade == Classify

SpecCascade == InitCascade /\ [][NextCascade]_vars

(***************************************************************************)
(* SpecPlaces: AgenticPlanner.process_message, step by step as in          *)
(* SpecStep, for messages that name no place, one place, or an area and    *)
(* one of its sub-locations, in either order                               *)
(***************************************************************************)
AreaNames == {"Petaling Jaya", "PJ", "Kuala Lumpur", "KL"}

\* the sub-locations of an area, as a message may write them
SubLocationNames(area_name) ==
    IF area_name \in {"Petaling Jaya", "PJ"} THEN {"SS 2", "SS2", "SS 15", "SS15", "Damansara Utama"}
    ELSE {"KLCC", "Bukit Bintang"}

\* the messages that name the area and one of its sub-locations
AreaAndSubLocation(area_name) ==
    {"Is there an outlet in " \o sub \o ", " \o area_name \o "?" : sub \in SubLocationNames(area_name)}
    \cup {"Is there an outlet in " \o area_name \o ", " \o sub \o "?" : sub \in SubLocationNames(area_name)}

PlaceMessages ==
    {"hello", "outlets", "What are the opening hours?"}
    \cup {"Is there an outlet in " \o place \o "?" : place \in ExtractablePlaces}
    \cup UNION {AreaAndSubLocation(area_name) : area_name \in AreaNames}

InitPlaces ==
    /\ message \in PlaceMessages
    /\ session_context \in StepContexts
    /\ intent = Nothing
    /\ plan_context = Nothing
    /\ action = Nothing
    /\ pc = "classify"
    /\ call = Healthy
    /\ reply = Nothing
    /\ memory_manager = ConversationMemoryManager
    /\ inflight = EmptyDict
    /\ requests = 0
    /\ sent = <<>>

SpecPlaces == InitPlaces /\ [][NextStep]_vars

(***************************************************************************)
(* SpecTurns: the overlapping requests of SpecRace on a session that       *)
(* already holds turns: none, one less than the window, or a full window.  *)
(* sent records the session and the number of add_turn calls made on it    *)
(* before the requests.                                                    *)
(***************************************************************************)
PriorTurns == {0, window_size - 1, window_size}

RECURSIVE Filled(_, _, _)
\* the store after n add_turn calls on the session
Filled(mm, session_id, n) ==
    IF n = 0 THEN mm
    ELSE add_turn(Filled(mm, session_id, n - 1), session_id, "hi", GREETING_MESSAGE).mm

InitTurns ==
    /\ PlanIdle
    /\ \E n \in PriorTurns :
        /\ memory_manager = Filled(create_session(ConversationMemoryManager).mm,
                                   create_session(ConversationMemoryManager).ret, n)
        /\ sent = [session_id |-> create_session(ConversationMemoryManager).ret, added |-> n]
    /\ inflight = EmptyDict
    /\ requests = 0
    /\ call = Nothing
    /\ reply = Nothing

SpecTurns == InitTurns /\ [][NextRace]_vars

(***************************************************************************)
(* SpecReply: the two methods the chat entry points answer with,           *)
(* process_message_with_planner (POST /chat) and                           *)
(* process_message_with_planner_detailed (POST /chat/agentic), each called *)
(* once on a session of the store.  call is the environment of the call    *)
(* and the outcome of the language model; reply records the method, the    *)
(* PlannerResult the planner gave it and the response text it returned.    *)
(***************************************************************************)
ReplyMessages == {
    "hi", "5 + 3", "weather in penang", "forecast for penang", "show me a mug", "outlets nearby",
    AREA_MESSAGE, HOURS_MESSAGE, SS2_HOURS_MESSAGE}

\* the session the calls are made on: new, or with an area in its context
ReplyStores == {
    create_session(ConversationMemoryManager).mm,
    update_context(create_session(ConversationMemoryManager).mm,
                   create_session(ConversationMemoryManager).ret, "area", "kuala_lumpur").mm}

InitReply ==
    /\ message \in ReplyMessages
    /\ memory_manager \in ReplyStores
    /\ session_context = planner_session_context(memory_manager, create_session(ConversationMemoryManager).ret)
    /\ intent = Nothing
    /\ plan_context = Nothing
    /\ action = Nothing
    /\ pc = "request"
    /\ call \in [env : {Env(TRUE, outcome, "none") : outcome \in RaceOutcomes}, llm : LLMOutcomes]
    /\ reply = Nothing
    /\ inflight = EmptyDict
    /\ requests = 0
    /\ sent = EmptyDict

Replied(method, planner_result, r, text) ==
    /\ reply' = [method |-> method, planner_result |-> planner_result, raised |-> r.raised, text |-> text]
    /\ memory_manager' = r.mm
    /\ pc' = "done"
    /\ UNCHANGED <<message, session_context, intent, plan_context, action, call, inflight, requests, sent>>

ReplyPlanner ==
    /\ pc = "request"
    /\ Replied("process_message_with_planner",
               process_message(message, session_context, call.env),
               process_message_with_planner(memory_manager, message, uuid4(0), session_context,
                                            call.env, call.llm),
               process_message_with_planner(memory_manager, message, uuid4(0), session_context,
                                            call.env, call.llm).ret)

ReplyDetailed ==
    /\ pc = "request"
    /\ Replied("process_message_with_planner_detailed",
               process_message(message, session_context, call.env),
               process_message_with_planner_detailed(memory_manager, message, uuid4(0), session_context,
                                                     call.env, call.llm),
               process_message_with_planner_detailed(memory_manager, message, uuid4(0), session_context,
                                                     call.env, call.llm).ret.response_text)

NextReply == ReplyPlanner \/ ReplyDetailed

SpecReply == InitReply /\ [][NextReply]_vars

(***************************************************************************)
(* SpecClear: the overlapping requests of SpecRace while clients delete    *)
(* sessions: a DELETE /session/{id} may run between the two parts of a     *)
(* POST /chat/agentic, after the request resolved its session and before   *)
(* it stores its turn                                                      *)
(***************************************************************************)
NextClear == RaceChat \/ RaceResume \/ DeleteSession

SpecClear == InitRace /\ [][NextClear]_vars

(***************************************************************************)
(* Claims                                                                  *)
(***************************************************************************)
\* C1: a location_inquiry or phone_inquiry without a location entity, planned
\* with a session context that holds a non-empty area, is resolved from that
\* area: plan_action does not return ask_clarification.
C1_InquiryResolvedFromArea ==
    (/\ pc = "done"
     /\ intent.intent \in {"location_inquiry", "phone_inquiry"}
     /\ ~Has(intent.entities, "location")
     /\ Truthy(get(session_context, "area"))
     /\ get(plan_context, "area") = get(session_context, "area"))
    => action.action_type # "ask_clarification"

\* C4: for every message and every session-context mapping, classify_intent
\* does not raise and returns a confidence in [0,1] (0..10 tenths).
C4_ClassifyTotal ==
    /\ pc = "raised" => session_context = NoContext
    /\ pc \in {"plan", "done"} => ~intent.raised /\ intent.confidence \in 0..10

ActionVariants ==
    {"ask_clarification", "search_outlets", "calculate", "get_weather", "get_forecast",
     "search_products", "search_outlets_nl", "provide_info", "finish"}

\* C5: for every ParsedIntent classify_intent returns and every session
\* context, the action_type plan_action returns is one of the nine variants.
C5_PlanTotal == pc = "done" => action.action_type \in ActionVariants

\* an intent without a branch of its own went through the default branch
C5_Witness ==
    /\ pc = "done"
    /\ intent.intent = "phone_inquiry"
    /\ action.reasoning = "Fallback action for unhandled intents"

\* C2: in every reachable state of the store every session holds at most
\* window_size turns.
C2_TurnsWithinWindow ==
    \A session_id \in DOMAIN memory_manager.sessions :
        Len(memory_manager.sessions[session_id].turns) <= window_size

\* add_turn has cut a list: a session holds window_size turns and its first
\* turn is no longer turn 1
C2_Witness ==
    \E session_id \in DOMAIN memory_manager.sessions :
        LET turns == memory_manager.sessions[session_id].turns
        IN  /\ Len(turns) = window_size
            /\ turns[1].turn_number > 1

\* C9: the weather tools render a provider timeout as the 'taking longer than
\* expected' message, an HTTP-status error as the 'experiencing issues'
\* message, and any other failure as a third message.
C9_DegradedMessagePerClass ==
    (reply # Nothing /\ call # Nothing /\ call.weather_agent) =>
        /\ ~reply.raised
        /\ call.outcome.kind = "timeout" => reply.value = WEATHER_TIMEOUT
        /\ call.outcome.kind = "status" => reply.value = WEATHER_ISSUES
        /\ call.outcome.kind \in {"malformed", "exception"} =>
               reply.value \notin {WEATHER_TIMEOUT, WEATHER_ISSUES}

\* the planner raised in classification, in planning or in the tool of the
\* call; reply.given is the session context it was given
PlannerRaised ==
    /\ call # Nothing
    /\ reply # Nothing
    /\ process_message(call.message, reply.given, call.env).raised

\* C3: process_message_with_planner_detailed lets no exception out; when
\* classification, planning or the tool raises, it returns the intent
\* general_question, the action provide_info, the confidence 0.5, no tools,
\* and as text what the fallback responder returned: the language model's
\* answer or, when that fails too, its apology.
C3_NoExceptionEscapes ==
    (reply # Nothing /\ call # Nothing /\ "env" \in DOMAIN call) =>
        /\ ~reply.raised
        /\ call.env.fault # "none" /\ PlannerRaised =>
            /\ reply.ret.intent = "general_question"
            /\ reply.ret.action_type = "provide_info"
            /\ reply.ret.confidence = FALLBACK_CONFIDENCE
            /\ reply.ret.tools_used = <<>>
            /\ reply.ret.response_text \in
                   {agent_process_message(memory_manager, call.message, call.session_id, llm).ret :
                        llm \in LLMOutcomes}

\* the tool of a weather request raised and the fallback was returned
C3_Witness ==
    /\ reply # Nothing
    /\ call # Nothing
    /\ "env" \in DOMAIN call
    /\ call.env.fault = "tool"
    /\ call.message = "weather in penang"
    /\ PlannerRaised
    /\ reply.ret.intent = "general_question"

\* C7: the turn_number POST /chat returns for the k-th message answered on a
\* session is k.
C7_TurnNumberIsMessageCount ==
    (reply # Nothing /\ "endpoint" \in DOMAIN reply /\ reply.endpoint = "chat"
        /\ reply.response.status_code = 200) =>
        reply.response.body.turn_number = Count(sent, reply.response.body.session_id)

\* C8: the statistics or the deletion of a session id the store does not
\* hold, and the outlets of an area without outlets, are answered 404.
C8_UnknownIsNotFound ==
    [][ (reply' # Nothing /\ "endpoint" \in DOMAIN reply') =>
            /\ (reply'.endpoint \in {"get_session_stats", "clear_session"}
                    /\ ~Has(memory_manager.sessions, reply'.request.session_id))
                   => reply'.response.status_code = 404
            /\ (reply'.endpoint = "get_outlets_by_area"
                    /\ find_outlets_by_area(reply'.request.area) = <<>>)
                   => reply'.response.status_code = 404 ]_vars

\* the reply answers a POST /chat/agentic
AgenticReply == reply # Nothing /\ "endpoint" \in DOMAIN reply /\ reply.endpoint = "agentic_chat"

\* the turn before the last of the session the reply names mentioned the area
AfterAreaTurn ==
    /\ reply.response.status_code = 200
    /\ Has(memory_manager.sessions, reply.response.body.session_id)
    /\ LET turns == memory_manager.sessions[reply.response.body.session_id].turns
       IN  /\ Len(turns) >= 2
           /\ turns[Len(turns) - 1].user_message = AREA_MESSAGE
           /\ turns[Len(turns)].user_message = HOURS_MESSAGE

\* C6: after a turn that mentions Petaling Jaya, the hours inquiry that names
\* no location is answered with the opening hours of that area's outlets:
\* no clarification request, no no-match message.
C6_FollowUpHoursFromArea ==
    (AgenticReply /\ reply.request.message = HOURS_MESSAGE /\ AfterAreaTurn) =>
        /\ reply.response.body.action_type # "ask_clarification"
        /\ reply.response.body.response # NO_OUTLETS_FOUND
        /\ \E i \in 1..3 : Contains(reply.response.body.response, OUTLETS_DATA[i].opening_time)

\* C10: an empty, whitespace-only or oversize message is answered with a
\* clarification and the status 200.
C10_InvalidMessageClarified ==
    (AgenticReply /\ (Len(reply.request.message) > MAX_MESSAGE_LENGTH
                      \/ strip(reply.request.message) = "")) =>
        /\ reply.response.status_code = 200
        /\ reply.response.body.action_type = "ask_clarification"

\* what get_or_create_session(mm, session_id) must have done when it returned r
GotOrCreated(mm, session_id, r) ==
    IF Truthy(session_id) /\ Has(mm.sessions, session_id)
    THEN r.ret = session_id /\ r.mm = mm
    ELSE /\ r.ret # session_id
         /\ ~Has(mm.sessions, r.ret)
         /\ DOMAIN r.mm.sessions = DOMAIN mm.sessions \cup {r.ret}
         /\ r.mm.sessions[r.ret].turns = <<>>
         /\ r.mm.sessions[r.ret].context = EmptyDict
         /\ \A other \in DOMAIN mm.sessions : r.mm.sessions[other] = mm.sessions[other]

\* C11: get_or_create_session returns an id of the store unchanged and creates
\* nothing; for None, the empty id or an id the store does not hold it creates
\* exactly one session, without turns or context, under an id that is neither
\* the supplied one nor one of the store, and leaves the other sessions alone.
C11_GetOrCreate ==
    \A session_id \in ClientIds(memory_manager) \cup {""} :
        GotOrCreated(memory_manager, session_id,
                     get_or_create_session(memory_manager, session_id))

\* the store holds a session with a turn and a context, and an id it issued
\* has been cleared: both branches are taken on this store
C11_Witness ==
    /\ \E held \in DOMAIN memory_manager.sessions :
          /\ memory_manager.sessions[held].turns # <<>>
          /\ memory_manager.sessions[held].context # EmptyDict
          /\ get_or_create_session(memory_manager, held).ret = held
    /\ \E cleared \in ClientIds(memory_manager) \ {None, "stranger"} :
          /\ ~Has(memory_manager.sessions, cleared)
          /\ get_or_create_session(memory_manager, cleared).ret \notin ClientIds(memory_manager)

\* the last operation was a POST /chat that carried the id of the session
\* the last successful delete removed; the reply answers it
ChatAfterClear ==
    /\ reply # Nothing /\ reply.endpoint = "chat"
    /\ Cleared # Nothing
    /\ call.op = "chat"
    /\ reply.request.session_id = Cleared.session_id

\* C12: after a delete succeeded, the hours inquiry without a location that
\* carries the deleted id is answered with the request to name an outlet,
\* on a session that holds this one turn and no context.
C12_ClearedSessionForgotten ==
    (ChatAfterClear /\ reply.request.message = HOURS_MESSAGE) =>
        /\ reply.response.status_code = 200
        /\ reply.response.body.response = HOURS_QUESTION
        /\ reply.response.body.session_id # Cleared.session_id
        /\ reply.response.body.turn_number = 1
        /\ memory_manager.sessions[reply.response.body.session_id].context = EmptyDict
        /\ Len(memory_manager.sessions[reply.response.body.session_id].turns) = 1

\* the deleted session held a turn and the area and place of SS 2
C12_Witness ==
    /\ ChatAfterClear
    /\ reply.request.message = HOURS_MESSAGE
    /\ Cleared.session.turns # <<>>
    /\ get(Cleared.session.context, "area") = "petaling_jaya"
    /\ get(Cleared.session.context, "specific_location") = "ss 2"
    /\ reply.response.body.response = HOURS_QUESTION

\* the entries the step may have written to the context of a session it
\* found in the store: those of the update_context call, or the context
\* updates of the planner for the message the chat on that session carried
WrittenBy(op, session_id, before, answer) ==
    IF op = "update_context" THEN {entry[1] :> entry[2] : entry \in SessionContext}
    ELSE IF op = "chat" /\ answer.response.body.session_id = session_id
    THEN {process_message(answer.request.message, planner_session_context(before, session_id),
                          Healthy).context_updates}
    ELSE {EmptyDict}

\* the context after is the context before, overwritten with the entries
Overwritten(before, after, written) ==
    /\ DOMAIN before \subseteq DOMAIN after
    /\ \E w \in written :
          \/ after = before
          \/ after = w @@ before

\* C13: no chat request, add_turn or update_context removes a key from the
\* context of a session that stays in the store, and a value changes only
\* by an entry written over it: that of the update_context call, or a
\* context update of the planner for the message of the chat.
C13_ContextKeysKept ==
    [][\A session_id \in DOMAIN memory_manager.sessions \cap DOMAIN memory_manager'.sessions :
          Overwritten(memory_manager.sessions[session_id].context,
                      memory_manager'.sessions[session_id].context,
                      WrittenBy(call'.op, session_id, memory_manager, reply'))]_vars

\* the session that was asked about KL holds the area written over it by
\* update_context, and still holds the outlet the chat stored
C13_Witness ==
    /\ call # Nothing /\ call.op = "update_context"
    /\ \E session_id \in DOMAIN memory_manager.sessions :
          /\ memory_manager.sessions[session_id].turns # <<>>
          /\ memory_manager.sessions[session_id].turns[1].user_message = KL_MESSAGE
          /\ get(memory_manager.sessions[session_id].context, "area") = "petaling_jaya"
          /\ get(memory_manager.sessions[session_id].context, "last_outlet_mentioned") = "kl"


\* the context updates of the planner for a message; they are read from the
\* entities of the message alone
ContextWritten(text) ==
    process_message(text, planner_session_context(ConversationMemoryManager, None), Healthy).context_updates

\* the context that writing the updates of each turn, in the order the
\* turns were added, leaves: a later write to a key lies over an earlier one
RECURSIVE LaidOver(_)
LaidOver(turns) ==
    IF turns = <<>> THEN EmptyDict
    ELSE ContextWritten(turns[Len(turns)].user_message) @@ LaidOver(SubSeq(turns, 1, Len(turns) - 1))

\* C14: of requests on one session, which may have planned from the same
\* context, each key holds the value of the request that finished last among
\* those that wrote it: the context is the updates of the finished requests
\* laid over each other in the order they finished, no key lost.
C14_LastWriteWins ==
    \A session_id \in DOMAIN memory_manager.sessions :
        Len(memory_manager.sessions[session_id].turns) <= window_size
            => memory_manager.sessions[session_id].context
                   = LaidOver(memory_manager.sessions[session_id].turns)

\* two requests waited on the first session with the same context; the one
\* about KLCC finished first and the one about PJ last: the area is the
\* later write, the sub-location only KLCC wrote is kept
C14_Witness ==
    /\ call = [overlapped |-> TRUE]
    /\ inflight = EmptyDict
    /\ Len(memory_manager.sessions[uuid4(0)].turns) = 2
    /\ memory_manager.sessions[uuid4(0)].turns[1].user_message = KLCC_WEATHER
    /\ memory_manager.sessions[uuid4(0)].turns[2].user_message = PJ_WEATHER
    /\ memory_manager.sessions[uuid4(0)].context =
           [last_outlet_mentioned |-> "pj", area |-> "petaling_jaya", specific_location |-> "klcc"]


\* the (user_message, bot_response) pairs of a list of turns
Exchanges(turns) == [i \in 1..Len(turns) |-> <<turns[i].user_message, turns[i].bot_response>>]

\* C15: after n add_turn calls on a session of the store,
\* get_conversation_history returns the last min(n, window_size) turns in
\* the order they were added; the store holds the dropped turns nowhere:
\* it holds this one session, whose context is empty.
C15_HistoryIsLastTurns ==
    /\ Exchanges(get_conversation_history(memory_manager, call.session_id))
           = SubSeq(call.added, Len(call.added) - Min({Len(call.added), window_size}) + 1,
                    Len(call.added))
    /\ DOMAIN memory_manager.sessions = {call.session_id}
    /\ memory_manager.sessions[call.session_id].context = EmptyDict

\* twelve turns were added: the history begins with the third
C15_Witness ==
    /\ Len(call.added) = window_size + 2
    /\ Len(get_conversation_history(memory_manager, call.session_id)) = window_size
    /\ get_conversation_history(memory_manager, call.session_id)[1].bot_response = "3"
    /\ get_conversation_history(memory_manager, call.session_id)[window_size].bot_response = "12"


\* the tool invoked for the message awaited a collaborator that failed: no
\* weather agent for a weather tool, or an HTTP call that did not come back well
ToolFailed ==
    /\ sent # <<>>
    /\ sent[1] \in REMOTE_TOOLS
    /\ \/ call.outcome.kind # "ok"
       \/ sent[1] \in {"get_current_weather", "get_weather_forecast"} /\ ~call.weather_agent

\* C16: processing one message invokes at most one tool, once; when the
\* call failed, control is past Step 3 with a text attached as
\* parameters['message'] that is not the tool's answer, nothing is raised,
\* and the result returned lists that one invocation.
C16_OneToolCallNoRetry ==
    /\ Len(sent) <= 1
    /\ sent # <<>> => sent[1] = tool_of(action)
    /\ ToolFailed =>
          /\ pc \in {"context", "done"}
          /\ Has(action.parameters, "message")
          /\ action.parameters["message"] # ""
          /\ action.parameters["message"] # execute_tool(action, Healthy)
    /\ pc = "done" => ~reply.raised /\ reply.tools = sent /\ reply.action = action

\* the weather agent timed out: the result carries the notice and one
\* invocation of get_current_weather
C16_Witness ==
    /\ pc = "done"
    /\ call.weather_agent
    /\ call.outcome.kind = "timeout"
    /\ reply.tools = <<"get_current_weather">>
    /\ reply.action.parameters["message"]
           = "I'm unable to fetch weather information at the moment. Weather API request timed out"


\* plan_action was given the context classify_intent was given, as
\* AgenticPlanner.process_message does
SameContext ==
    /\ session_context # NoContext
    /\ get(session_context, "area") = plan_context.area

\* the first of the four sources that holds a location is the only one
\* whose value is in params
FirstResolved(params, entities, ctx) ==
    IF Has(entities, "location") THEN params = [location |-> entities["location"]]
    ELSE IF Truthy(ctx.last_outlet_mentioned) THEN params = [location |-> ctx.last_outlet_mentioned]
    ELSE IF Truthy(ctx.specific_location) THEN params = [location |-> ctx.specific_location]
    ELSE Truthy(ctx.area) /\ params = [area |-> ctx.area]

\* C17: for an hours_inquiry planned in the context it was classified in,
\* plan_action asks for clarification exactly when neither the message nor
\* the context's area nor its last_outlet_mentioned gives a location;
\* otherwise it returns provide_info with the deferred call get_hours_info
\* and one parameter: the location entity, else last_outlet_mentioned, else
\* specific_location, else the area.  "SS 2, what's the opening time?"
\* gives get_hours_info(location="ss 2") in every context.
C17_HoursLocationResolved ==
    /\ (pc = "done" /\ message = SS2_HOURS_MESSAGE /\ SameContext) =>
          /\ intent.intent = "hours_inquiry"
          /\ action.parameters["tool_params"] = [location |-> "ss 2"]
    /\ (pc = "done" /\ intent.intent = "hours_inquiry" /\ SameContext) =>
        IF ~Has(intent.entities, "location") /\ ~Truthy(plan_context.area)
              /\ ~Truthy(plan_context.last_outlet_mentioned)
        THEN action.action_type = "ask_clarification"
        ELSE /\ action.action_type = "provide_info"
             /\ action.parameters["tool_call"] = "get_hours_info"
             /\ Cardinality(DOMAIN action.parameters["tool_params"]) = 1
             /\ FirstResolved(action.parameters["tool_params"], intent.entities, plan_context)

\* the message names SS 2 and the context holds another area and outlet:
\* the entity of the message is the parameter
C17_Witness ==
    /\ pc = "done"
    /\ message = SS2_HOURS_MESSAGE
    /\ intent.intent = "hours_inquiry"
    /\ SameContext
    /\ plan_context.area = "kuala_lumpur"
    /\ plan_context.last_outlet_mentioned = "ss 2"
    /\ action.parameters["tool_params"] = [location |-> "ss 2"]


\* C18: for an outlet_search, plan_action asks for clarification exactly
\* when the message gave no location entity and the context has no area;
\* otherwise it returns search_outlets whose parameters are the location
\* entity alone when there is one, and the context's area alone when not.
C18_OutletSearchParameters ==
    (pc = "done" /\ intent.intent = "outlet_search") =>
        IF ~Has(intent.entities, "location") /\ ~Truthy(plan_context.area)
        THEN action.action_type = "ask_clarification"
        ELSE /\ action.action_type = "search_outlets"
             /\ action.parameters =
                    IF Has(intent.entities, "location")
                    THEN [location |-> intent.entities["location"]]
                    ELSE [area |-> plan_context.area]

\* outlets are asked for in KL while the context holds an area: the
\* location of the message alone is searched
C18_Witness ==
    /\ pc = "done"
    /\ message = "outlets kl"
    /\ intent.intent = "outlet_search"
    /\ plan_context.area = "kuala_lumpur"
    /\ action.action_type = "search_outlets"
    /\ action.parameters = [location |-> "kl"]


\* C19: for a weather intent planned in the context it was classified in,
\* plan_action asks for clarification only if the location is flagged
\* missing and the context holds no area to resolve it from; for
\* weather_current the flag is set only when the whole message is one of
\* the vague weather terms; when it does not ask, the plan is get_weather (or
\* get_forecast) with the extracted city, 'Kuala Lumpur, Malaysia' when
\* there is none.
C19_WeatherClarification ==
    (pc = "done" /\ intent.intent \in {"weather_current", "weather_forecast"} /\ SameContext) =>
        /\ action.action_type = "ask_clarification" =>
                InSeq("location", intent.missing_info) /\ ~Truthy(plan_context.area)
        /\ (intent.intent = "weather_current" /\ InSeq("location", intent.missing_info)) =>
                strip(lower(message)) \in vague_weather_terms
        /\ action.action_type # "ask_clarification" =>
                /\ action.action_type
                       = (IF intent.intent = "weather_current" THEN "get_weather" ELSE "get_forecast")
                /\ action.parameters["location"]
                       = (IF Has(intent.entities, "weather_location")
                          THEN intent.entities["weather_location"] ELSE default_location)


\* the outlets of the catalog at a place: those of the area for an area name
\* or its abbreviation, the one of the sub-location otherwise
CatalogOutlets(place) ==
    CASE place \in {"petaling jaya", "pj"} ->
            {i \in 1..Len(OUTLETS_DATA) : OUTLETS_DATA[i].area = "Petaling Jaya"}
      [] place \in {"kuala lumpur", "kl"} ->
            {i \in 1..Len(OUTLETS_DATA) : OUTLETS_DATA[i].area = "Kuala Lumpur"}
      [] place \in {"ss 2", "ss2"} -> {i \in 1..Len(OUTLETS_DATA) : OUTLETS_DATA[i].location = "SS 2"}
      [] place \in {"ss 15", "ss15"} -> {i \in 1..Len(OUTLETS_DATA) : OUTLETS_DATA[i].location = "SS 15"}
      [] OTHER -> {i \in 1..Len(OUTLETS_DATA) : lower(OUTLETS_DATA[i].location) = place}

\* C20: an outlet search with a location the classifier extracted returns
\* the outlets the catalog has at that area or sub-location, and not the
\* no-match message; 'Do you have stores in KL?' lists the outlets of
\* Kuala Lumpur.
C20_ExtractedPlaceFindsOutlets ==
    (/\ pc = "done"
     /\ intent.intent = "outlet_search"
     /\ Has(intent.entities, "location")) =>
        /\ reply.tools = <<"search_outlets">>
        /\ reply.action.parameters["message"] # NO_OUTLETS_FOUND
        /\ \A i \in 1..Len(OUTLETS_DATA) :
              Contains(reply.action.parameters["message"], OUTLETS_DATA[i].name \o " - ")
                  <=> i \in CatalogOutlets(intent.entities["location"])


\* C21: execute_calculation never raises; '/' with a second operand of zero
\* returns the division-by-zero error string and an operator that is none
\* of + - * / the unsupported-operator error string, neither with a result
\* line 'a op b = r'.
C21_CalculationNeverRaises ==
    reply # Nothing =>
        /\ ~reply.raised
        /\ (call.operator = "/" /\ call.operand2 = [type |-> "int", value |-> 0]) =>
               reply.value = "Error: Cannot divide by zero"
        /\ call.operator \notin {"+", "-", "*", "/"} => reply.value = "Error: Unsupported operator"
        /\ (\/ call.operator \notin {"+", "-", "*", "/"}
            \/ call.operator = "/" /\ call.operand2 = [type |-> "int", value |-> 0]) =>
               ~Contains(reply.value, " = ")

\* an operand that is None made the addition raise inside the try: the
\* text of the exception came back as a string
C21_Witness ==
    /\ reply # Nothing
    /\ call.operator = "+"
    /\ call.operand1.type = "NoneType"
    /\ call.operand2 = [type |-> "int", value |-> 5]
    /\ reply = Value("Calculation error: unsupported operand type(s) for +: 'NoneType' and 'int'")


\* C22: a message that is a binary expression 'a op b' over non-negative
\* integers with op one of + - * is classified as a calculation with the
\* three entities and nothing missing, planned as calculate with the tool
\* calculator, and rendered as 'a op b = r' with r the integer result; the
\* bare word 'Calculate' is planned as ask_clarification with the example
\* question.
C22_BinaryExpressionCalculated ==
    /\ (message = LONG_OPERAND_MESSAGE \/ \E e \in Expressions : message = e.text) =>
          /\ pc # "raised"
          /\ pc \in {"plan", "done"} => intent.intent = "calculation" /\ intent.missing_info = <<>>
          /\ pc = "done" => action.action_type = "calculate" /\ action.required_tools = <<"calculator">>
    /\ \A e \in Expressions :
          (message = e.text /\ pc = "done") =>
              /\ intent.entities = [operand1 |-> e.a, operator |-> e.op, operand2 |-> e.b]
              /\ execute_tool(action, Healthy)
                     = str(e.a) \o " " \o e.op \o " " \o str(e.b) \o " = " \o e.r
    /\ (message = "Calculate" /\ pc = "done") =>
          /\ action.action_type = "ask_clarification"
          /\ action.parameters = [question |-> CALC_QUESTION]
          /\ Contains(CALC_QUESTION, "'5 + 3'")


\* the categories of the cascade, from the highest priority to the lowest
Categories == <<
    "empty", "greeting", "goodbye", "calculation", "weather_forecast", "weather_current",
    "product_search", "outlet_search_nl", "outlet_search", "hours_inquiry", "location_inquiry",
    "phone_inquiry", "vague_calculation", "unclear">>

\* the pattern or the keywords of category k match the lower-cased, trimmed message
CategoryMatches(k, message_lower) ==
    CASE Categories[k] = "empty" -> message_lower = ""
      [] Categories[k] = "greeting" -> re_search_any(greeting_patterns, message_lower)
      [] Categories[k] = "goodbye" -> re_search_any(goodbye_patterns, message_lower)
      [] Categories[k] = "calculation" -> re_search_any(calculation_patterns, message_lower)
      [] Categories[k] = "weather_forecast" -> re_search_any(weather_forecast_patterns, message_lower)
      [] Categories[k] = "weather_current" -> re_search_any(weather_current_patterns, message_lower)
      [] Categories[k] = "product_search" -> re_search_any(product_patterns, message_lower)
      [] Categories[k] = "outlet_search_nl" -> re_search_any(advanced_outlet_patterns, message_lower)
      [] Categories[k] = "outlet_search" -> \E w \in {"outlet", "store", "shop", "mall"} : Contains(message_lower, w)
      [] Categories[k] = "hours_inquiry" ->
            \E w \in {"hour", "time", "open", "close", "when"} : Contains(message_lower, w)
      [] Categories[k] = "location_inquiry" -> \E w \in {"address", "where", "located"} : Contains(message_lower, w)
      [] Categories[k] = "phone_inquiry" ->
            \E w \in {"phone", "number", "contact", "call"} : Contains(message_lower, w)
      [] Categories[k] = "vague_calculation" -> message_lower \in {"calculate", "computation", "math"}
      [] Categories[k] = "unclear" -> TRUE

\* the intent a category assigns, and the confidences (in tenths) it gives
IntentOf(category) ==
    CASE category = "empty" -> [intent |-> "unclear", confidence |-> {0}]
      [] category = "vague_calculation" -> [intent |-> "calculation", confidence |-> {5}]
      [] category = "unclear" -> [intent |-> "unclear", confidence |-> {3}]
      [] category \in {"greeting", "goodbye"} -> [intent |-> category, confidence |-> {9}]
      [] OTHER -> [intent |-> category, confidence |-> {6, 8}]

FirstMatch(message_lower) == Min({k \in 1..Len(Categories) : CategoryMatches(k, message_lower)})

\* C23: the intent classify_intent returns is that of the first category,
\* in the order empty, greeting, goodbye, calculation, weather forecast,
\* weather current, product search, advanced outlet search, outlet keyword,
\* hours keyword, location keyword, phone keyword, vague calculation word,
\* unclear, whose pattern matches the lower-cased, trimmed message.
C23_FirstMatchWins ==
    pc = "plan" =>
        /\ intent.intent = IntentOf(Categories[FirstMatch(strip(lower(message)))]).intent
        /\ intent.confidence \in IntentOf(Categories[FirstMatch(strip(lower(message)))]).confidence

\* the message holds a keyword of the hours branch and one of the outlet
\* branch, the hours keyword first: the outlet branch, which is tested
\* first, gives the intent
C23_Witness ==
    /\ pc = "plan"
    /\ message = "open mall"
    /\ intent.intent = "outlet_search"


\* the areas of the catalog: the names a message gives them and the key the
\* context holds
Areas == {
    [names |-> {"petaling jaya", "pj"}, area |-> "petaling_jaya"],
    [names |-> {"kuala lumpur", "kl"}, area |-> "kuala_lumpur"]}

\* the sub-locations of the catalog, each with its parent area
SubLocations == {
    [names |-> {"ss 2", "ss2"}, specific_location |-> "ss 2", area |-> "petaling_jaya"],
    [names |-> {"ss 15", "ss15"}, specific_location |-> "ss 15", area |-> "petaling_jaya"],
    [names |-> {"damansara utama"}, specific_location |-> "damansara utama", area |-> "petaling_jaya"],
    [names |-> {"klcc"}, specific_location |-> "klcc", area |-> "kuala_lumpur"],
    [names |-> {"bukit bintang"}, specific_location |-> "bukit bintang", area |-> "kuala_lumpur"]}

\* the text mentions the place under one of its names, as a word of its own
Mentions(place, text) == \E name \in place.names : re_search(BWords(<<name>>), lower(text))

\* C24: process_message returns non-empty context_updates exactly when a
\* location entity was extracted; last_outlet_mentioned is the most specific
\* location the message mentions, area the parent area of that location,
\* and specific_location the sub-location whenever the message mentions
\* one, also when it names an area as well.
C24_ContextUpdatesOfLocation ==
    pc = "done" =>
        /\ reply.context_updates # EmptyDict <=> Has(reply.intent.entities, "location")
        /\ \A s \in SubLocations :
              Mentions(s, message) =>
                  /\ get(reply.context_updates, "last_outlet_mentioned") \in s.names
                  /\ get(reply.context_updates, "area") = s.area
                  /\ get(reply.context_updates, "specific_location") = s.specific_location
        /\ \A a \in Areas :
              (Mentions(a, message) /\ \A s \in SubLocations : ~Mentions(s, message)) =>
                  /\ get(reply.context_updates, "last_outlet_mentioned") \in a.names
                  /\ get(reply.context_updates, "area") = a.area
                  /\ ~Has(reply.context_updates, "specific_location")


\* the turns the session of SpecTurns holds
TurnsOf(mm) == get_conversation_history(mm, sent.session_id)

\* the add_turn calls completed on the session: those before the requests
\* and one for each request answered
AddTurnCalls == sent.added + requests - Cardinality(DOMAIN inflight)

\* new is old with one turn appended and, when old was a full window, the
\* oldest turn dropped
OneTurnAdded(old, new) ==
    /\ new[Len(new)].user_message \in RaceMessages
    /\ IF Len(old) < window_size
       THEN Len(new) = Len(old) + 1 /\ SubSeq(new, 1, Len(old)) = old
       ELSE Len(new) = window_size /\ SubSeq(new, 1, window_size - 1) = SubSeq(old, 2, window_size)

\* C25: under any interleaving of overlapping requests on one session each
\* add_turn and update_context takes effect as one step: a step that
\* changes the turns appends exactly one turn (and trims the oldest of a
\* full window), no context key is dropped, and after n add_turn calls the
\* session holds min(window_size, n) turns.
C25_AddTurnAtomic ==
    /\ [](/\ Has(memory_manager.sessions, sent.session_id)
          /\ Len(TurnsOf(memory_manager)) = Min({window_size, AddTurnCalls}))
    /\ [][/\ TurnsOf(memory_manager') # TurnsOf(memory_manager) =>
                 OneTurnAdded(TurnsOf(memory_manager), TurnsOf(memory_manager'))
          /\ DOMAIN memory_manager.sessions[sent.session_id].context
                 \subseteq DOMAIN memory_manager'.sessions[sent.session_id].context]_vars

\* two requests overlapped on a session that held a full window, and both
\* were answered: twelve add_turn calls, ten turns
C25_Witness ==
    /\ call # Nothing
    /\ inflight = EmptyDict
    /\ sent.added = window_size
    /\ AddTurnCalls = window_size + 2
    /\ Len(TurnsOf(memory_manager)) = window_size
    /\ TurnsOf(memory_manager)[window_size].user_message \in RaceMessages
    /\ TurnsOf(memory_manager)[window_size - 1].user_message \in RaceMessages


\* C26: whenever the planned action executed a tool (calculate,
\* search_outlets, get_weather, get_forecast, search_products,
\* search_outlets_nl, the deferred get_hours_info), the response text
\* returned is exactly action.parameters['message'], for both methods the
\* chat entry points answer with.
C26_ToolTextReturned ==
    (/\ pc = "done"
     /\ ~reply.planner_result.raised
     /\ reply.planner_result.tools # <<>>) =>
        /\ ~reply.raised
        /\ reply.text = reply.planner_result.action.parameters["message"]


\* the step is the second part of a POST /chat/agentic: a waiting request
\* stored its turn and was answered
TurnStored == DOMAIN inflight' # DOMAIN inflight /\ DOMAIN inflight' \subseteq DOMAIN inflight

\* the turn is the last of the history
LastOf(history, user_message, bot_response) ==
    /\ history # <<>>
    /\ history[Len(history)].user_message = user_message
    /\ history[Len(history)].bot_response = bot_response

\* C27: after add_turn(id, u, b) returns, (u, b) is the last entry of
\* get_conversation_history(id) for that same id, also when the session was
\* removed by a clear_session between the resolution of the session and
\* add_turn; the turn is recorded in no session of another id.
C27_TurnUnderItsId ==
    [][TurnStored =>
          /\ LastOf(get_conversation_history(memory_manager', reply'.response.body.session_id),
                    reply'.request.message, reply'.response.body.response)
          /\ \A other \in DOMAIN memory_manager'.sessions \ {reply'.response.body.session_id} :
                get_conversation_history(memory_manager', other)
                    = get_conversation_history(memory_manager, other)]_vars


\* C28: after any sequence of chat requests, a context that holds both area
\* and specific_location holds a specific_location that is a sub-location
\* of that area.
C28_SubLocationOfArea ==
    \A session_id \in DOMAIN memory_manager.sessions :
        (/\ Truthy(get(memory_manager.sessions[session_id].context, "area"))
         /\ Truthy(get(memory_manager.sessions[session_id].context, "specific_location"))) =>
            \E s \in SubLocations :
                /\ s.specific_location = memory_manager.sessions[session_id].context["specific_location"]
                /\ s.area = memory_manager.sessions[session_id].context["area"]


\* the step takes in request n, which waits with the session_context it was
\* given
TakenIn(n) == requests' = n /\ requests = n - 1 /\ n \in DOMAIN inflight'

\* the session_context holds every entry of the context
SuppliedBack(context, given) == \A key \in DOMAIN context : get(given, key) = context[key]

\* C29: every context key that was emitted in context_updates and persisted
\* to the session (area, specific_location, last_outlet_mentioned) is
\* supplied, with its value, in the session_context the planner is given on
\* the next request of the session.
C29_ContextSuppliedBack ==
    [][\A n \in 1..MaxRequests :
          TakenIn(n) =>
              SuppliedBack(memory_manager.sessions[inflight'[n].entered].context, inflight'[n].given)]_vars


\* C30: classify_intent called without a session_context (the declared
\* default, None) returns a ParsedIntent for every message, also for those
\* that reach the hours, location or phone keyword branches with no
\* location entity.
C30_DefaultContextClassified ==
    (session_context = NoContext /\ pc # "classify") =>
        /\ pc = "plan"
        /\ ~intent.raised
        /\ intent.confidence \in 0..10

=============================================================================
